---------------------------- MODULE Spec2Model ----------------------------
(***************************************************************************)
(* A model of the kassandra FMD service: the enclave main loop (key        *)
(* registration over the simplified RA-TLS handshake and the FMD tick),    *)
(* the host's key-registration relay and FMD orchestration, the host's     *)
(* fetch pipeline, and the client side of the handshake.                   *)
(*                                                                         *)
(* Each party is checked against an arbitrary peer: SpecEnclave drives the *)
(* enclave with any frame a host may send, SpecHost drives the relay with  *)
(* any client and enclave reply, SpecClient drives the client with any     *)
(* service reply, SpecFetch runs the fetch collector concurrently with     *)
(* the host's FMD tick, SpecVerify applies the clients' report verifiers   *)
(* to any report, SpecRelay joins the host's relay to the enclave over     *)
(* their two frame queues, SpecCycle is the fetch collector without the    *)
(* shutdown signal, SpecRanges applies the methods of FetchedRanges to     *)
(* any ranges, SpecSched and SpecSchedLive are the host's event loop,      *)
(* SpecCombine applies IndexList::combine to any two lists, SpecFrame      *)
(* writes and reads frames over a byte channel, SpecLockstep adds the FMD  *)
(* tick to SpecRelay, SpecFlags applies check_flags to any keys and flags, *)
(* SpecTasks and SpecTasksLive are the fetch tasks of a cycle and the      *)
(* collector's wait, SpecRestart is the collector over a shutdown and a    *)
(* restart, SpecStop takes the shutdown step by step, SpecFold combines    *)
(* three index lists in every order, SpecBirthday registers keys with a    *)
(* birthday and runs ticks, SpecShutdown joins the tasks, the collector    *)
(* and main's event loop under the shutdown signal.                        *)
(***************************************************************************)
EXTENDS Integers, Sequences, FiniteSets, TLC

\* ------------------------------------------------------------------ bounds
\* Largest block height of the modelled chain / largest horizon of a tick.
MaxHeight == 2
\* Largest number of keys the enclave registers in a run.
MaxKeys == 2
\* Largest number of FMD ticks in a run.
MaxTicks == 2
\* Largest number of entries of one RequestedFlags message.
MaxFlags == 1
\* the height of the chain's tip
MaxChain == 5
\* BATCH_SIZE of the fetcher, scaled down from 30
BatchSize == 2
\* the largest max_wal_size configured
MaxWalSize == 2
\* the largest number of failed fetch tasks in a run
MaxFailures == 2
\* the largest height of a FetchedRanges on which insert is applied
MaxRange == 6
\* the largest number of connections waiting in the listener
MaxBacklog == 2
\* the largest height and tx of an Index in a combined IndexList, and the
\* largest length of such a list
MaxIndexHeight == 3
MaxIndexTx == 1
MaxList == 3
\* the largest byte value, in the role of 0xFF
MaxByte == 3
\* the longest string of a Basic message
MaxText == 3
\* the largest FRAME_BUF_SIZE, which is also the growth step of the buffer
MaxFrameBuf == 3
\* the largest number of frames written to one channel
MaxFrames == 2
\* the largest number of entries of the RequestedFlags given to check_flags
\* when it is applied on its own
MaxTickFlags == 3
\* the largest number of fetch tasks spawned at the start of a cycle, and the
\* largest number of tasks spawned again after a failure
MaxTasks == 2
MaxRespawns == 1

\* DEFAULT_BUF_SIZE, the capacity of the channel between the fetch tasks and
\* the collector: 32 for batches of 30 heights in the source, here for
\* batches of BatchSize heights on a chain of MaxChain
DEFAULT_BUF_SIZE == 2

\* the longest of the three lists that are combined in every order
MaxFoldList == 2

VARIABLES
    \* --- enclave (src/enclave/src/lib.rs)
    registered_keys,   \* Vec<(FmdKeyRegistration, IndexSet)>
    enc_pc,            \* "main": blocked in the loop's read;
                       \* "await_ack": blocked in register_key's read
    enc_conn,          \* the Initialized connection's shared key (0: none)
    to_host,           \* frames the enclave wrote and the host has not read
    \* --- observation of the enclave's behaviour
    enc_in,            \* the frame the enclave's last step read
    emitted,           \* owner -> heights of the EncryptedResponses emitted
    hist,              \* per registered key: the ticks handled since it
                       \* was registered, [n: how many, k: their horizon]
    nticks,            \* number of ticks handled
    \* --- deployment
    deployment,        \* "tdx" or "transparent": the RemoteAttestation in use
    \* --- host: handle_connection / handle_key_registration
    h_pc,              \* "accept", "round1", "client_ack" or "round2"
    h_in,              \* the frame the host's last step read
    h_to_enclave,      \* frames written to the enclave for this connection
    h_to_client,       \* frames written to the client of this connection
    indices_table,     \* the Indices table: owner -> Option<EncryptedResponse>
    to_enclave,        \* frames the host wrote and the enclave has not read
    \* --- client: register_fmd_key
    cl_pc,             \* "start", "await_report", "await_result", "done", "panicked"
    cl_nonce,          \* the nonce of the client hello
    cl_secret,         \* the client's ephemeral secret
    cl_key,            \* the key registration to submit
    cl_report,         \* Option: the server message read as the report
    cl_sent,           \* the frames the client wrote
    \* --- verify_quote applied to a report
    v_verifier,        \* "tdx" or "transparent": the EnclaveClient in use
    v_report,          \* the report bytes
    v_nonce,           \* the nonce the client sent
    v_result,          \* Option: the Result of verify_quote
    \* --- fetcher (collector) and the MASP database
    fetched,           \* FetchedRanges: the vector of range bounds
    latest_height,     \* the tip the indexer last reported
    pending,           \* the fetch tasks of the cycle not yet handled: {<<from, to>>}
    synced_to_watch,   \* the value of the synced_to watch channel
    published,         \* Option: the value the collector last sent on it
    wal,               \* DbConn::wal: entries buffered, not yet in Txs
    txs_table,         \* the rows of the Txs table
    max_wal_size,      \* the configured flush threshold
    fetch_state,       \* "running" or "stopped"
    nfailed,           \* number of fetch tasks that failed and were spawned again
    fetcher_dat,       \* Option: the bytes of the file fetcher.dat
    \* --- host: handle_fmd
    tick_pc,           \* "idle" or "reading"
    tick_heights,      \* heights whose rows are still to be read
    tick_flags,        \* the entries read so far
    \* --- FetchedRanges and its methods applied to it
    fetched_ranges,    \* a FetchedRanges: the vector of range bounds
    ranges_call,       \* the last method call: its arguments, the ranges
                       \* before it and what it returned
    ranges_fresh,      \* TRUE if fetched_ranges started as FetchedRanges::default
    \* --- host: the event loop of main and its EventScheduler
    sched_pc,          \* "poll": awaiting next_query; "accept", "fmd": in the
                       \* handler of the event; "closed": main returned
    sched_event,       \* the result of the last poll of NextQuery
    sched_seen,        \* what the three futures returned in that poll
    interrupt_fired,   \* the InterruptFlag's watch holds an unseen change
    backlog,           \* connections waiting to be accepted
    timeout_elapsed,   \* the Sleep of the current NextQuery has elapsed
    \* --- IndexList::combine applied to two lists
    cmb_a,             \* an IndexList
    cmb_b,             \* another IndexList
    cmb_ab,            \* Option: cmb_a after cmb_a.combine(cmb_b)
    cmb_ba,            \* Option: cmb_b after cmb_b.combine(cmb_a)
    cmb_c,             \* a third IndexList
    cmb_fold,          \* Option: the results of combining the three, by order
    \* --- FramedBytes over a byte channel
    frm_size,          \* FRAME_BUF_SIZE of the channel
    frm_chan,          \* the bytes written and not yet read
    frm_sent,          \* the messages passed to write_frame, in order
    frm_recv,          \* the Results of get_frame + deserialize, in order
    \* --- check_flags applied to any keys and flags
    cf_keys,           \* registered_keys before the call
    cf_synced_to,      \* the horizon of the tick
    cf_flags,          \* the entries of the tick
    cf_out,            \* Option: the keys after the call and the response
    \* --- Tasks: the fetch tasks of a cycle and the collector's wait
    task_pc,           \* per task: "none" (not spawned), "fetching", "blocked"
                       \* (send_async waits for a free slot), "sent"
                       \* (message queued), "waking" (counter decremented
                       \* to 0), "done"
    active_tasks,      \* AsyncCounterInner::count
    waker,             \* AsyncCounterInner::waker holds a registered waker
    messages,          \* the flume channel: the results queued
    recv_hook,         \* the channel holds the waker of a pending recv_async
    notified,          \* the collector's task has been woken
    gm_pc,             \* the collector in get_next_message: "recv", "count",
                       \* "register", "pending", "try_recv"; "ended": the
                       \* while loop of sync is over
    sent_log,          \* every message sent on the channel, in order
    handled_log,       \* every message given to handle_fetched, in order
    nrespawn,          \* number of tasks spawned again
    \* --- the shutdown signal and the collector's way out
    shutdown,          \* the shutdown signal was received
    interrupt_flag,    \* Fetcher::interrupt_flag, the AtomicFlag
    gm_fresh,          \* the next poll of select is the first of a call of
                       \* get_next_message
    run_pc             \* Fetcher::run: "sync" (the loop over the messages),
                       \* "sleep" (between cycles), "returned" (the task
                       \* of start_updates has dropped its InterruptFlag)

enclave_vars == <<registered_keys, enc_pc, enc_conn, to_host, enc_in, emitted, hist, nticks>>
relay_vars == <<h_pc, h_in, h_to_enclave, h_to_client>>
host_vars == <<relay_vars, indices_table>>
channel_vars == <<to_enclave>>
collector_vars == <<fetched, latest_height, pending, synced_to_watch, published, wal,
                    txs_table, max_wal_size, fetch_state, nfailed, fetcher_dat>>
tick_vars == <<tick_pc, tick_heights, tick_flags>>
fetch_vars == <<collector_vars, tick_vars>>
client_vars == <<cl_pc, cl_nonce, cl_secret, cl_key, cl_report, cl_sent>>
verify_vars == <<v_verifier, v_report, v_nonce, v_result>>
ranges_vars == <<fetched_ranges, ranges_call, ranges_fresh>>
sched_vars == <<sched_pc, sched_event, sched_seen, interrupt_fired, backlog, timeout_elapsed>>
combine_vars == <<cmb_a, cmb_b, cmb_ab, cmb_ba, cmb_c, cmb_fold>>
frame_vars == <<frm_size, frm_chan, frm_sent, frm_recv>>
flags_vars == <<cf_keys, cf_synced_to, cf_flags, cf_out>>
tasks_vars == <<task_pc, active_tasks, waker, messages, recv_hook, notified, gm_pc,
                sent_log, handled_log, nrespawn>>
stop_vars == <<shutdown, interrupt_flag, gm_fresh, run_pc>>
vars == <<enclave_vars, deployment, host_vars, channel_vars, client_vars, verify_vars,
          fetch_vars, ranges_vars, tasks_vars, combine_vars, sched_vars, frame_vars,
          flags_vars, stop_vars>>

\* ------------------------------------------------------------ helper values
\* Option<T> is a sequence of length at most one.
None == <<>>
Some(x) == <<x>>
IsSome(o) == Len(o) = 1
unwrap_or(o, d) == IF Len(o) = 1 THEN o[1] ELSE d

Min(a, b) == IF a <= b THEN a ELSE b

RECURSIVE SeqsUpTo(_, _)
\* all sequences over S of length at most n
SeqsUpTo(S, n) ==
    IF n = 0 THEN {<<>>}
    ELSE LET shorter == SeqsUpTo(S, n - 1)
         IN  shorter \cup {Append(s, x) : s \in {t \in shorter : Len(t) = n - 1}, x \in S}

IsPrefix(s, t) == Len(s) <= Len(t) /\ \A i \in 1..Len(s) : s[i] = t[i]

\* ------------------------------------------------- X25519 and ChaCha20Poly1305
\* A secret scalar is a prime; its public key is the scalar itself. 0 is a
\* low-order point: the shared secret computed with it is all-zero.
ClientSecrets == {2}
EnclaveSecrets == {5}
LowOrderPoints == {0}
PublicKey(sk) == sk
\* EphemeralSecret::diffie_hellman
diffie_hellman(sk, pk) == sk * pk
\* SharedSecret::was_contributory
was_contributory(shared) == shared # 0

\* Connection::initialize: Ok(shared key) or Err(NonContributory)
initialize(sk, pk) ==
    LET shared == diffie_hellman(sk, pk)
    IN  IF was_contributory(shared) THEN [ok |-> TRUE, key |-> shared]
        ELSE [ok |-> FALSE, key |-> 0]

\* An FmdKeyRegistration. The detection key and the encryption key are
\* small identifiers; hash() of an encryption key is the identifier.
KeyIds == {1, 2}
Birthdays == {None, Some(0)}
Registrations == {[fmd_key |-> k, enc_key |-> k, birthday |-> b] : k \in KeyIds, b \in Birthdays}
hash(enc_key) == enc_key
Garbled == [fmd_key |-> 0, enc_key |-> 0, birthday |-> None]

\* A TlsCiphertext: the AEAD key it was sealed under and the CBOR payload
\* (wellformed: it decodes to a registration).
encrypt_msg(key, payload) == [key |-> key, wellformed |-> TRUE, plain |-> payload]
\* Connection::decrypt_msg: decrypt, then CBOR-decode
decrypt_msg(key, cipher) ==
    IF cipher.key # key THEN [ok |-> FALSE, val |-> Garbled]
    ELSE IF ~cipher.wellformed THEN [ok |-> FALSE, val |-> Garbled]
    ELSE [ok |-> TRUE, val |-> cipher.plain]

\* ------------------------------------------------------- attestation report
RECURSIVE to_le_bytes(_, _)
\* u64::to_le_bytes: the `len` low bytes of n, least significant first
to_le_bytes(n, len) ==
    IF len = 0 THEN <<>> ELSE <<n % 256>> \o to_le_bytes(n \div 256, len - 1)

RECURSIVE from_le_bytes(_)
\* u64::from_le_bytes
from_le_bytes(bytes) ==
    IF bytes = <<>> THEN 0 ELSE Head(bytes) + 256 * from_le_bytes(Tail(bytes))

\* PublicKey::to_bytes: 32 bytes
pk_to_bytes(pk) == [i \in 1..32 |-> IF i = 1 THEN pk ELSE 0]
\* PublicKey::from([u8; 32])
pk_from_bytes(bytes) == bytes[1]

\* register_key: report_data[0..32] = enclave_pk, [32..40] = nonce LE, rest 0
report_data_of(enclave_pk, nonce) ==
    LET bytes == pk_to_bytes(enclave_pk) \o to_le_bytes(nonce, 8)
    IN  [i \in 1..64 |-> IF i <= Len(bytes) THEN bytes[i] ELSE 0]

\* The measurement the client policy expects (MRTD, RTMR0, RTMR1 are the
\* all-zero hex string) and any other measurement.
ExpectedMeasurement == "0000"
OtherMeasurement == "ffff"

\* RemoteAttestation::get_quote. A TDX quote carries the platform's
\* measurements and a signature over the report data; the transparent
\* "quote" is the 64 bytes themselves.
get_quote(ra, report_data) ==
    IF ra = "transparent"
    THEN [kind |-> "raw", mrtd |-> "", rtmr0 |-> "", rtmr1 |-> "",
          sig_ok |-> FALSE, data |-> report_data]
    ELSE [kind |-> "quote", mrtd |-> ExpectedMeasurement, rtmr0 |-> ExpectedMeasurement,
          rtmr1 |-> ExpectedMeasurement, sig_ok |-> TRUE, data |-> report_data]

\* ------------------------------------------------------------------ messages
Nonces == {1, 258}

\* MsgToHost
ErrorMsg(s) == [type |-> "Error", text |-> s]
ErrorForClient(s) == [type |-> "ErrorForClient", text |-> s]
RATLS(report) == [type |-> "RATLS", report |-> report]
KeyRegSuccess == [type |-> "KeyRegSuccess"]
Report(quote) == [type |-> "Report", report |-> quote]
BlockRequests(heights) == [type |-> "BlockRequests", heights |-> heights]
FmdResults(results) == [type |-> "FmdResults", results |-> results]

\* AckType
AckFail == [type |-> "RATLSAck", success |-> FALSE, cipher |-> encrypt_msg(0, Garbled)]
AckSuccess(cipher) == [type |-> "RATLSAck", success |-> TRUE, cipher |-> cipher]

\* MsgFromHost
RegisterKeyMsg(nonce, pk) == [type |-> "RegisterKey", nonce |-> nonce, pk |-> pk]
RequestReport(user_data) == [type |-> "RequestReport", user_data |-> user_data]
RequiredBlocks == [type |-> "RequiredBlocks"]
RequestedFlags(synced_to, flags) ==
    [type |-> "RequestedFlags", synced_to |-> synced_to, flags |-> flags]
Basic == [type |-> "Basic"]
\* a frame that get_frame or deserialize rejects: read() returns Err
Malformed == [type |-> "Malformed"]

\* Index and the (Index, Option<FlagCiphertexts>) entries of a tick. A flag
\* ciphertext is identified by the detection key that detects it.
Index(h, t) == [height |-> h, tx |-> t]
FlagEntry(ix, flag) == [ix |-> ix, flag |-> flag]
FlagEntries == {FlagEntry(Index(h, 0), f) : h \in 1..MaxHeight, f \in {None, Some(1)}}
FlagLists == SeqsUpTo(FlagEntries, MaxFlags)

\* the ciphertexts a host may relay
Ciphers ==
    {encrypt_msg(diffie_hellman(e, PublicKey(c)), r) :
        e \in EnclaveSecrets, c \in ClientSecrets, r \in Registrations}
    \cup {encrypt_msg(1, Garbled)}
    \cup {[key |-> diffie_hellman(e, PublicKey(c)), wellformed |-> FALSE, plain |-> Garbled] :
            e \in EnclaveSecrets, c \in ClientSecrets}

\* every frame a host may put on the enclave's channel
HostFrames ==
    {RegisterKeyMsg(n, pk) : n \in Nonces,
        pk \in {PublicKey(c) : c \in ClientSecrets} \cup LowOrderPoints}
    \cup {RequestReport(report_data_of(0, 0))}
    \cup {AckFail} \cup {AckSuccess(c) : c \in Ciphers}
    \cup {RequiredBlocks, Basic, Malformed}
    \cup {RequestedFlags(k, fl) : k \in 0..MaxHeight, fl \in FlagLists}

\* ------------------------------------------------------------------ IndexSet
\* impl From<u64> for IndexSet
\* (variant: the cursor always starts at 1)
IndexSetFrom_default(value) == [synced_to |-> 1, indices |-> <<>>]
IndexSetFrom(value) == [synced_to |-> value, indices |-> <<>>]

\* IndexSet::next
next(ixset) == ixset.synced_to + 1

\* IndexSet::advance
\* (variant: the cursor skips a height)
advance_by_two(ixset) == [ixset EXCEPT !.synced_to = @ + 2]
advance(ixset) == [ixset EXCEPT !.synced_to = @ + 1]

\* MultiFmd2CompactScheme::detect
detect(fmd_key, flag) == flag = fmd_key

\* (variant of the inner loop: the filter on the height is missing)
matching_indices_any_height(entry, flags) ==
    LET hits == SelectSeq(flags, LAMBDA e :
                    e.flag = None \/ detect(entry.key.fmd_key, e.flag[1]))
    IN  [j \in 1..Len(hits) |-> hits[j].ix]

\* check_flags, the inner loop: the indices of the flags of the key's next
\* height that are absent or detected, in input order
matching_indices(entry, flags) ==
    LET hits == SelectSeq(flags, LAMBDA e :
                    /\ e.ix.height = entry.ixset.synced_to + 1
                    /\ (e.flag = None \/ detect(entry.key.fmd_key, e.flag[1])))
    IN  [j \in 1..Len(hits) |-> hits[j].ix]

\* IndexSet::add_result: the response with this key's encrypted index set
\* added, or an Error when the encryption fails or an earlier one did
add_result(ixset, enc_key, enc_ok, msg) ==
    IF ~enc_ok THEN ErrorMsg("aead::Error")
    ELSE IF msg.type = "Error" THEN msg
    ELSE FmdResults(Append(msg.results,
            [owner |-> hash(enc_key), key |-> enc_key,
             indices |-> ixset.indices, height |-> ixset.synced_to]))

\* check_flags: the filter on the registered keys
eligible(ixset, synced_to) == ixset.synced_to < synced_to

RECURSIVE check_flags_from(_, _, _, _, _, _)
\* check_flags, the loop over the registered keys from position i on.
\* enc_fails: the positions whose encryption fails.
check_flags_from(keys, i, synced_to, flags, enc_fails, response) ==
    IF i > Len(keys) THEN [keys |-> keys, response |-> response]
    ELSE IF ~eligible(keys[i].ixset, synced_to)
    THEN check_flags_from(keys, i + 1, synced_to, flags, enc_fails, response)
    ELSE LET found == [keys[i].ixset EXCEPT
                          !.indices = @ \o matching_indices(keys[i], flags)]
             resp == add_result(found, keys[i].key.enc_key, i \notin enc_fails, response)
             done == [keys EXCEPT ![i].ixset = advance(found)]
         IN  check_flags_from(done, i + 1, synced_to, flags, enc_fails, resp)

check_flags(keys, synced_to, flags, enc_fails) ==
    check_flags_from(keys, 1, synced_to, flags, enc_fails, FmdResults(<<>>))

\* ------------------------------------------------------- enclave: register_key
\* register_key after the report was sent: the frames it writes for the
\* frame it reads, and the registration it returns to the main loop
register_key_ack(conn_key, frame) ==
    IF frame.type # "RATLSAck"
    THEN [out |-> <<ErrorMsg("Received unexpected message")>>, key |-> None]
    ELSE IF ~frame.success
    THEN [out |-> <<>>, key |-> None]
    ELSE LET plain == decrypt_msg(conn_key, frame.cipher)
         IN  IF plain.ok
             THEN [out |-> <<KeyRegSuccess>>, key |-> Some(plain.val)]
             ELSE [out |-> <<ErrorForClient("Could not decrypt / deserialize message")>>,
                   key |-> None]

\* main, the RegisterKey arm: push the key returned by register_key
\* (variant: the new key is put first)
push_key_front(keys, key) ==
    <<[key |-> key, ixset |-> IndexSetFrom(unwrap_or(key.birthday, 1))]>> \o keys
push_key(keys, key) ==
    Append(keys, [key |-> key, ixset |-> IndexSetFrom(unwrap_or(key.birthday, 1))])

\* -------------------------------------------------------------- enclave steps
\* Each step reads one frame `msg` and handles it to completion; `unread`
\* are the frames the host has not yet read when the enclave writes.

\* main, arm RegisterKey, up to register_key's blocking read
EnclaveRegisterKey(msg, unread) ==
    /\ enc_pc = "main"
    /\ msg.type = "RegisterKey"
    /\ \E esk \in EnclaveSecrets :
          LET conn == initialize(esk, msg.pk)
              quote == get_quote(deployment, report_data_of(PublicKey(esk), msg.nonce))
          IN  IF conn.ok
              THEN /\ to_host' = Append(unread, RATLS(quote))
                   /\ enc_pc' = "await_ack"
                   /\ enc_conn' = conn.key
              ELSE /\ to_host' = Append(unread,
                                    ErrorForClient("Failed to initialize TLS connection."))
                   /\ enc_pc' = "main"
                   /\ enc_conn' = 0
    /\ UNCHANGED <<registered_keys, emitted, hist, nticks>>

\* register_key from its read of the acknowledgement to its return, and the
\* push of the RegisterKey arm
EnclaveAck(msg, unread) ==
    /\ enc_pc = "await_ack"
    /\ LET res == register_key_ack(enc_conn, msg)
       IN  /\ to_host' = unread \o res.out
           /\ IF IsSome(res.key)
              THEN /\ Len(registered_keys) < MaxKeys
                   /\ registered_keys' = push_key(registered_keys, res.key[1])
                   /\ hist' = Append(hist,
                        [s |-> registered_keys'[Len(registered_keys')].ixset.synced_to,
                         n |-> 0, k |-> 0, same |-> TRUE])
              ELSE UNCHANGED <<registered_keys, hist>>
    /\ enc_pc' = "main"
    /\ enc_conn' = 0
    /\ UNCHANGED <<emitted, nticks>>

\* main, arm RequestReport
EnclaveRequestReport(msg, unread) ==
    /\ enc_pc = "main"
    /\ msg.type = "RequestReport"
    /\ to_host' = Append(unread, Report(get_quote(deployment, msg.user_data)))
    /\ UNCHANGED <<registered_keys, enc_pc, enc_conn, emitted, hist, nticks>>

\* main, arm RequiredBlocks
EnclaveRequiredBlocks(msg, unread) ==
    /\ enc_pc = "main"
    /\ msg.type = "RequiredBlocks"
    /\ to_host' = Append(unread, BlockRequests(
            [i \in 1..Len(registered_keys) |-> next(registered_keys[i].ixset)]))
    /\ UNCHANGED <<registered_keys, enc_pc, enc_conn, emitted, hist, nticks>>

RECURSIVE RecordEmitted(_, _)
\* `emitted` with the heights of the responses of one FmdResults appended
RecordEmitted(em, results) ==
    IF results = <<>> THEN em
    ELSE RecordEmitted([em EXCEPT ![Head(results).owner] = Append(@, Head(results).height)],
                       Tail(results))

\* main, arm RequestedFlags: the FMD tick
EnclaveRequestedFlags(msg, unread) ==
    /\ enc_pc = "main"
    /\ msg.type = "RequestedFlags"
    /\ nticks < MaxTicks
    /\ \E enc_fails \in SUBSET (1..Len(registered_keys)) :
          LET res == check_flags(registered_keys, msg.synced_to, msg.flags, enc_fails)
          IN  /\ registered_keys' = res.keys
              /\ to_host' = Append(unread, res.response)
              /\ emitted' = IF res.response.type = "FmdResults"
                            THEN RecordEmitted(emitted, res.response.results)
                            ELSE emitted
    /\ hist' = [i \in 1..Len(hist) |->
                    IF hist[i].n = 0 THEN [hist[i] EXCEPT !.n = 1, !.k = msg.synced_to]
                    ELSE [hist[i] EXCEPT !.n = @ + 1,
                                         !.same = @ /\ hist[i].k = msg.synced_to]]
    /\ nticks' = nticks + 1
    /\ UNCHANGED <<enc_pc, enc_conn>>

\* (variant: the main loop answers a message it does not expect with Error)
EnclaveIgnore_answering(msg, unread) ==
    /\ enc_pc = "main"
    /\ msg.type \in {"Basic", "RATLSAck"}
    /\ to_host' = Append(unread, ErrorMsg("Received unexpected message"))
    /\ UNCHANGED <<registered_keys, enc_pc, enc_conn, emitted, hist, nticks>>

\* main, arm `_ => {}`
EnclaveIgnore(msg, unread) ==
    /\ enc_pc = "main"
    /\ msg.type \in {"Basic", "RATLSAck"}
    /\ to_host' = unread
    /\ UNCHANGED <<registered_keys, enc_pc, enc_conn, emitted, hist, nticks>>

\* main, arm Err(e): the read failed
EnclaveReadError(msg, unread) ==
    /\ enc_pc = "main"
    /\ msg.type = "Malformed"
    /\ to_host' = Append(unread, ErrorMsg("MsgError"))
    /\ UNCHANGED <<registered_keys, enc_pc, enc_conn, emitted, hist, nticks>>

\* Tcp::read_byte, arm Err(e) => panic!: the read on the host channel fails
\* with an I/O error other than WouldBlock, in main or inside register_key
\* (the TDX serial port has no failing read)
IoError == [type |-> "IoError"]
EnclaveReadPanics(unread) ==
    /\ deployment = "transparent"
    /\ enc_pc \in {"main", "await_ack"}
    /\ enc_pc' = "panicked"
    /\ to_host' = unread
    /\ UNCHANGED <<registered_keys, enc_conn, emitted, hist, nticks>>

\* ------------------------------------------------------- host: key relay
\* ServerMsg
ServerError(s) == [type |-> "ServerError", text |-> s]
UUID == [type |-> "UUID"]
IndicesResponse(resp) == [type |-> "IndicesResponse", resp |-> resp]
\* ClientMsg beyond those shared with MsgFromHost
RequestUUID == [type |-> "RequestUUID"]
RequestIndices(key_hash) == [type |-> "RequestIndices", key_hash |-> key_hash]
\* timed_read: Some(Err(e)) and None
ClientReadError == [type |-> "ClientReadError"]
ClientTimeout == [type |-> "ClientTimeout"]

\* TryFrom<MsgToHost> for ServerMsg
\* (variant: every enclave message is passed on)
ServerMsg_try_from_any(msg) == Some(msg)
ServerMsg_try_from(msg) ==
    IF msg.type = "RATLS" THEN Some(msg)
    ELSE IF msg.type = "ErrorForClient" THEN Some(ServerError(msg.text))
    ELSE IF msg.type = "KeyRegSuccess" THEN Some(msg)
    ELSE None

\* DB::fetch_indices
fetch_indices(table, user) ==
    IF user \in DOMAIN table /\ IsSome(table[user])
    THEN [ok |-> TRUE, val |-> table[user][1]]
    ELSE [ok |-> FALSE, val |-> "Could not find user's key hash in the DB"]

\* the reports an enclave, or whoever answers for it, may send
Measurements == {ExpectedMeasurement, OtherMeasurement}
ReportDatas ==
    {report_data_of(pk, n) :
        pk \in {PublicKey(e) : e \in EnclaveSecrets} \cup LowOrderPoints, n \in Nonces}
Reports ==
    {[kind |-> "quote", mrtd |-> m1, rtmr0 |-> m2, rtmr1 |-> m3, sig_ok |-> sg, data |-> d] :
        m1 \in Measurements, m2 \in Measurements, m3 \in Measurements,
        sg \in BOOLEAN, d \in ReportDatas}
    \cup {get_quote("transparent", d) : d \in ReportDatas}
    \cup {get_quote("transparent", <<0>>)}

\* every frame an enclave may put on the host's channel, and a failed read
EnclaveFrames ==
    {RATLS(get_quote(ra, d)) : ra \in {"tdx", "transparent"}, d \in ReportDatas}
    \cup {ErrorForClient("Failed to initialize TLS connection."),
          ErrorForClient("Could not decrypt / deserialize message"),
          KeyRegSuccess, ErrorMsg("Received unexpected message"),
          Report(get_quote("tdx", report_data_of(0, 0))),
          BlockRequests(<<>>), FmdResults(<<>>), Malformed}

\* every frame a client may send, and the failed reads
ClientFrames ==
    {RegisterKeyMsg(n, pk) : n \in Nonces,
        pk \in {PublicKey(c) : c \in ClientSecrets} \cup LowOrderPoints}
    \cup {RequestReport(report_data_of(0, 0)), AckFail, RequestUUID}
    \cup {AckSuccess(c) : c \in Ciphers}
    \cup {RequestIndices(k) : k \in KeyIds}
    \cup {ClientReadError, ClientTimeout}

\* the abort_tls! macro of handle_key_registration
abort_tls ==
    /\ h_to_enclave' = Append(h_to_enclave, AckFail)
    /\ h_to_client' = h_to_client
    /\ h_pc' = "accept"

\* handle_connection up to the first enclave read of handle_key_registration
HostAccept(req) ==
    /\ h_pc = "accept"
    /\ h_in' = req
    /\ IF req.type = "RegisterKey"
       THEN /\ h_to_enclave' = <<RegisterKeyMsg(req.nonce, req.pk)>>
            /\ h_to_client' = <<>>
            /\ h_pc' = "round1"
       ELSE /\ h_to_enclave' = <<>>
            /\ h_pc' = "accept"
            /\ h_to_client' =
                 IF req.type = "RequestUUID" THEN <<UUID>>
                 ELSE IF req.type = "RequestIndices"
                 THEN LET resp == fetch_indices(indices_table, req.key_hash)
                      IN  IF resp.ok THEN <<IndicesResponse(resp.val)>>
                          ELSE <<ServerError("Failed to get indices")>>
                 ELSE <<>>
    /\ UNCHANGED indices_table

\* handle_key_registration, first round: the enclave's reply is read
HostRound1(msg) ==
    /\ h_pc = "round1"
    /\ h_in' = msg
    /\ IF msg.type = "Malformed"
       THEN /\ h_pc' = "round2"
            /\ UNCHANGED <<h_to_enclave, h_to_client>>
       ELSE LET resp == ServerMsg_try_from(msg)
            IN  IF IsSome(resp)
                THEN /\ h_to_client' = Append(h_to_client, resp[1])
                     /\ h_pc' = "client_ack"
                     /\ UNCHANGED h_to_enclave
                ELSE abort_tls
    /\ UNCHANGED indices_table

\* handle_key_registration, first round: the client's response is read
HostClientAck(req) ==
    /\ h_pc = "client_ack"
    /\ h_in' = req
    /\ IF req.type = "RATLSAck"
       THEN /\ h_to_enclave' = Append(h_to_enclave, req)
            /\ h_pc' = "round2"
            /\ UNCHANGED h_to_client
       ELSE abort_tls
    /\ UNCHANGED indices_table

\* handle_key_registration, the final acknowledgement round
HostRound2(msg) ==
    /\ h_pc = "round2"
    /\ h_in' = msg
    /\ IF msg.type = "Malformed"
       THEN /\ h_pc' = "accept"
            /\ UNCHANGED <<h_to_enclave, h_to_client>>
       ELSE LET resp == ServerMsg_try_from(msg)
            IN  IF IsSome(resp)
                THEN /\ h_to_client' = Append(h_to_client, resp[1])
                     /\ h_pc' = "accept"
                     /\ UNCHANGED h_to_enclave
                ELSE abort_tls
    /\ UNCHANGED indices_table

\* the host's main loop before a connection is accepted
InitHostState ==
    /\ h_pc = "accept"
    /\ h_in = Basic
    /\ h_to_enclave = <<>>
    /\ h_to_client = <<>>
    /\ indices_table = [o \in KeyIds |-> None]

\* ------------------------------------------------- client: register_fmd_key
\* Quote::from_bytes
Quote_from_bytes(report) == report.kind = "quote"

\* verify_quote of the client's handshake
\* (variant: the nonce is not compared)
verify_quote_no_nonce(quote, nonce) ==
    /\ quote.mrtd = ExpectedMeasurement
    /\ quote.rtmr0 = ExpectedMeasurement
    /\ quote.rtmr1 = ExpectedMeasurement
    /\ quote.sig_ok
verify_quote(quote, nonce) ==
    /\ quote.mrtd = ExpectedMeasurement
    /\ quote.rtmr0 = ExpectedMeasurement
    /\ quote.rtmr1 = ExpectedMeasurement
    /\ quote.sig_ok
    /\ from_le_bytes(SubSeq(quote.data, 33, 40)) = nonce

\* every message a server may answer with; None: the read failed
ServerFrames ==
    {Some(RATLS(r)) : r \in Reports}
    \cup {Some(ServerError("Failed to initialize TLS connection.")),
          Some(KeyRegSuccess), Some(UUID), None}

\* register_fmd_key up to its first read
ClientHello ==
    /\ cl_pc = "start"
    /\ cl_sent' = <<RegisterKeyMsg(cl_nonce, PublicKey(cl_secret))>>
    /\ cl_pc' = "await_report"
    /\ UNCHANGED <<cl_nonce, cl_secret, cl_key, cl_report>>

\* register_fmd_key from the read of the report to the next read, or to
\* the panic that ends it
ClientReport(resp) ==
    /\ cl_pc = "await_report"
    /\ cl_report' = resp
    /\ IF IsSome(resp) /\ resp[1].type = "RATLS"
       THEN LET report == resp[1].report
                conn == initialize(cl_secret, pk_from_bytes(SubSeq(report.data, 1, 32)))
            IN  IF  /\ Quote_from_bytes(report)
                    /\ verify_quote(report, cl_nonce)
                    /\ conn.ok
                THEN /\ cl_sent' = Append(cl_sent, AckSuccess(encrypt_msg(conn.key, cl_key)))
                     /\ cl_pc' = "await_result"
                ELSE /\ cl_sent' = Append(cl_sent, AckFail)
                     /\ cl_pc' = "panicked"
       ELSE /\ cl_sent' = cl_sent
            /\ cl_pc' = "panicked"
    /\ UNCHANGED <<cl_nonce, cl_secret, cl_key>>

\* register_fmd_key, the read of the final response
ClientResult(resp) ==
    /\ cl_pc = "await_result"
    /\ cl_pc' = "done"
    /\ UNCHANGED <<cl_nonce, cl_secret, cl_key, cl_report, cl_sent>>

\* a client that has not started
InitClientState ==
    /\ cl_pc = "start"
    /\ cl_nonce = 1
    /\ cl_secret = 2
    /\ cl_key = Garbled
    /\ cl_report = None
    /\ cl_sent = <<>>

\* ------------------------------------------------ EnclaveClient::verify_quote
\* TdxClient::verify_quote
TdxClient_verify_quote(report, nonce) ==
    IF ~Quote_from_bytes(report) THEN [ok |-> FALSE, val |-> "QuoteParse"]
    ELSE IF report.mrtd # ExpectedMeasurement THEN [ok |-> FALSE, val |-> "MRTD"]
    ELSE IF report.rtmr0 # ExpectedMeasurement THEN [ok |-> FALSE, val |-> "RTMR0"]
    ELSE IF report.rtmr1 # ExpectedMeasurement THEN [ok |-> FALSE, val |-> "RTMR1"]
    ELSE IF ~report.sig_ok THEN [ok |-> FALSE, val |-> "Verification"]
    ELSE IF from_le_bytes(SubSeq(report.data, 33, 40)) # nonce
    THEN [ok |-> FALSE, val |-> "Nonce"]
    ELSE [ok |-> TRUE, val |-> report.data]

\* TClient::verify_quote
TClient_verify_quote(report, nonce) ==
    IF report.kind = "raw" /\ Len(report.data) = 64
    THEN [ok |-> TRUE, val |-> report.data]
    ELSE [ok |-> FALSE, val |-> "UserData"]

\* the call, for the verifier the client was built with
Verify ==
    /\ v_result = None
    /\ v_result' = Some(IF v_verifier = "tdx"
                        THEN TdxClient_verify_quote(v_report, v_nonce)
                        ELSE TClient_verify_quote(v_report, v_nonce))
    /\ UNCHANGED <<v_verifier, v_report, v_nonce>>

InitVerifyState ==
    /\ v_verifier = "tdx"
    /\ v_report = get_quote("tdx", report_data_of(0, 0))
    /\ v_nonce = 1
    /\ v_result = None

\* ------------------------------------------------------------- FramedBytes
Bytes == 0..MaxByte

\* serde_cbor::to_vec on a MsgToHost: the variant, then for Basic the length
\* of the string and its bytes
to_vec(msg) ==
    IF msg.type = "Basic" THEN <<1, Len(msg.text)>> \o msg.text ELSE <<2>>
\* Frame::deserialize (serde_cbor::from_slice): Some(message) or None
from_slice(bytes) ==
    IF bytes = <<>> THEN None
    ELSE IF bytes[1] = 1
    THEN IF Len(bytes) >= 2 /\ bytes[2] = Len(bytes) - 2
         THEN Some([type |-> "Basic", text |-> SubSeq(bytes, 3, Len(bytes))])
         ELSE None
    ELSE IF bytes[1] = 2 /\ Len(bytes) = 1 THEN Some(KeyRegSuccess)
    ELSE None

\* cobs::encode_vec_with_sentinel(data, 0); block holds the non-zero bytes
\* gathered since the last code byte
RECURSIVE cobs_encode(_, _)
cobs_encode(data, block) ==
    IF data = <<>> THEN <<Len(block) + 1>> \o block
    ELSE IF Head(data) = 0
    THEN <<Len(block) + 1>> \o block \o cobs_encode(Tail(data), <<>>)
    ELSE IF Len(block) + 2 = MaxByte
    THEN <<MaxByte>> \o Append(block, Head(data))
         \o (IF Tail(data) = <<>> THEN <<>> ELSE cobs_encode(Tail(data), <<>>))
    ELSE cobs_encode(Tail(data), Append(block, Head(data)))

\* write_frame: the bytes it passes to write_bytes
write_frame(msg) == Append(cobs_encode(to_vec(msg), <<>>), 0)

\* cobs::CobsDecoder::new over a buffer of buf_size bytes
CobsDecoder(buf_size) == [st |-> "Idle", n |-> 0, dest |-> <<>>, cap |-> buf_size]
\* the decoder writes one decoded byte
decoder_put(dec, st, n, b) ==
    IF Len(dec.dest) < dec.cap
    THEN [dec |-> [dec EXCEPT !.st = st, !.n = n, !.dest = Append(dec.dest, b)],
          res |-> "None"]
    ELSE [dec |-> dec, res |-> "TargetBufTooSmall"]
\* cobs::CobsDecoder::feed: the decoder after the byte and the result
feed(dec, b) ==
    LET code_st == IF b = MaxByte THEN "GrabChain" ELSE "Grab"
    IN  IF dec.st = "Idle"
        THEN IF b = 0 THEN [dec |-> dec, res |-> "None"]
             ELSE [dec |-> [dec EXCEPT !.st = code_st, !.n = b - 1], res |-> "None"]
        ELSE IF dec.n = 0
        THEN IF b = 0 THEN [dec |-> [dec EXCEPT !.st = "Idle"], res |-> "Some"]
             ELSE IF dec.st = "Grab" THEN decoder_put(dec, code_st, b - 1, 0)
             ELSE [dec |-> [dec EXCEPT !.st = code_st, !.n = b - 1], res |-> "None"]
        ELSE IF b = 0 THEN [dec |-> dec, res |-> "InvalidFrame"]
             ELSE decoder_put(dec, dec.st, dec.n - 1, b)
\* cobs::CobsDecoder::push
RECURSIVE push(_, _)
push(dec, data) ==
    IF data = <<>> THEN [dec |-> dec, res |-> "None"]
    ELSE LET r == feed(dec, Head(data))
         IN  IF r.res = "None" THEN push(r.dec, Tail(data)) ELSE r

\* get_frame on a channel holding chan: the Result, and the bytes left unread.
\* get_frame_outer is the body of the outer loop, get_frame_inner of the
\* inner one; replay is FALSE only in the variant that grows the buffer
\* without pushing the bytes read so far.
RECURSIVE get_frame_outer(_, _, _, _, _)
RECURSIVE get_frame_inner(_, _, _, _, _, _)
get_frame_inner(dec, read_bytes, chan, buf_size, step, replay) ==
    IF chan = <<>> THEN [res |-> "blocked", bytes |-> <<>>, rest |-> chan]
    ELSE LET r == feed(dec, Head(chan))
             read == Append(read_bytes, Head(chan))
         IN  CASE r.res = "None" ->
                    get_frame_inner(r.dec, read, Tail(chan), buf_size, step, replay)
               [] r.res = "Some" ->
                    [res |-> "Ok", bytes |-> r.dec.dest, rest |-> Tail(chan)]
               [] r.res = "TargetBufTooSmall" ->
                    get_frame_outer(read, Tail(chan), buf_size + step, step, replay)
               [] OTHER -> [res |-> "Decode", bytes |-> <<>>, rest |-> Tail(chan)]
get_frame_outer(read_bytes, chan, buf_size, step, replay) ==
    LET p == push(CobsDecoder(buf_size), IF replay THEN read_bytes ELSE <<>>)
    IN  IF p.res \in {"TargetBufTooSmall", "InvalidFrame"}
        THEN [res |-> "panic", bytes |-> <<>>, rest |-> chan]
        ELSE get_frame_inner(p.dec, read_bytes, chan, buf_size, step, replay)
get_frame_no_replay(chan, size) == get_frame_outer(<<>>, chan, size, size, FALSE)
get_frame(chan, size) == get_frame_outer(<<>>, chan, size, size, TRUE)

\* EnclaveComm::read / HostComm::read: get_frame, then Frame::deserialize
read_frame(chan, size) ==
    LET f == get_frame(chan, size)
    IN  IF f.res = "Ok"
        THEN LET m == from_slice(f.bytes)
             IN  IF IsSome(m) THEN [res |-> "Ok", msg |-> m[1]]
                 ELSE [res |-> "Deserialize", msg |-> f.bytes]
        ELSE [res |-> f.res, msg |-> f.bytes]

\* the messages written in the runs of the channel
FrameMsgs ==
    {[type |-> "Basic", text |-> t] : t \in SeqsUpTo(Bytes, Min(MaxText, MaxByte))}
    \cup {KeyRegSuccess}

\* a message is written to the channel
WriteFrame(msg) ==
    /\ Len(frm_sent) < MaxFrames
    /\ frm_chan' = frm_chan \o write_frame(msg)
    /\ frm_sent' = Append(frm_sent, msg)
    /\ UNCHANGED <<frm_size, frm_recv>>
\* the reader takes the next frame off the channel and deserialises it
ReadFrame ==
    /\ frm_chan # <<>>
    /\ frm_recv' = Append(frm_recv, read_frame(frm_chan, frm_size))
    /\ frm_chan' = get_frame(frm_chan, frm_size).rest
    /\ UNCHANGED <<frm_size, frm_sent>>
InitFrameState ==
    /\ frm_size = 2
    /\ frm_chan = <<>>
    /\ frm_sent = <<>>
    /\ frm_recv = <<>>

\* check_flags not yet applied
InitFlagsState ==
    /\ cf_keys = <<>>
    /\ cf_synced_to = 1
    /\ cf_flags = <<>>
    /\ cf_out = None

\* the tasks spawned by sync and those spawned again by handle_fetched
TaskIds == 1..(MaxTasks + MaxRespawns)

\* Fetcher::new: no signal yet, AtomicFlag::default, run not left
InitStopState ==
    /\ shutdown = FALSE
    /\ interrupt_flag = FALSE
    /\ gm_fresh = TRUE
    /\ run_pc = "sync"

\* Fetcher::new: no task, AsyncCounter::new, an empty channel
InitTasksState ==
    /\ task_pc = [t \in TaskIds |-> "none"]
    /\ active_tasks = 0
    /\ waker = FALSE
    /\ messages = <<>>
    /\ recv_hook = FALSE
    /\ notified = FALSE
    /\ gm_pc = "ended"
    /\ sent_log = <<>>
    /\ handled_log = <<>>
    /\ nrespawn = 0

\* ---------------------------------------------------------------- IndexList
\* Ord for Index: by height, then by tx
index_le(x, y) == x.height < y.height \/ (x.height = y.height /\ x.tx <= y.tx)

RECURSIVE sort(_)
\* Vec::sort of an IndexList
sort(list) ==
    IF list = <<>> THEN <<>>
    ELSE LET rest == sort(Tail(list))
             before == SelectSeq(rest, LAMBDA y : ~index_le(Head(list), y))
             after == SelectSeq(rest, LAMBDA y : index_le(Head(list), y))
         IN  before \o <<Head(list)>> \o after

\* IndexList::contains on a sorted list: binary_search(index).is_ok()
list_contains(list, index) == \E i \in 1..Len(list) : list[i] = index

\* (variant of combine: the indices at the common height are all kept)
combine_keeping_boundary(self, other) ==
    IF self = <<>> THEN other
    ELSE IF other = <<>> THEN self
    ELSE LET a == sort(self)
             b == sort(other)
             a_height == a[Len(a)].height
             b_height == b[Len(b)].height
             swapped == a_height < b_height
             height == IF swapped THEN a_height ELSE b_height
             kept == IF swapped THEN b ELSE a
             against == IF swapped THEN a ELSE b
         IN  SelectSeq(kept, LAMBDA ix : ix.height >= height \/ list_contains(against, ix))

\* IndexList::combine: `self` after self.combine(other)
combine(self, other) ==
    IF self = <<>> THEN other
    ELSE IF other = <<>> THEN self
    ELSE LET a == sort(self)
             b == sort(other)
             a_height == a[Len(a)].height
             b_height == b[Len(b)].height
             swapped == a_height < b_height
             height == IF swapped THEN a_height ELSE b_height
             kept == IF swapped THEN b ELSE a
             against == IF swapped THEN a ELSE b
         IN  SelectSeq(kept, LAMBDA ix : ix.height > height \/ list_contains(against, ix))

\* the index lists combined: any Vec<Index>, as IndexList::try_from_bytes
\* returns them
IndexLists ==
    SeqsUpTo({Index(h, t) : h \in 1..MaxIndexHeight, t \in 0..MaxIndexTx}, MaxList)

\* a.combine(b) on a clone of a, and b.combine(a) on a clone of b
Combine ==
    /\ cmb_ab = None
    /\ cmb_ab' = Some(combine(cmb_a, cmb_b))
    /\ cmb_ba' = Some(combine(cmb_b, cmb_a))
    /\ UNCHANGED <<cmb_a, cmb_b, cmb_c, cmb_fold>>

\* the lists of three services
FoldLists ==
    SeqsUpTo({Index(h, t) : h \in 1..MaxIndexHeight, t \in 0..MaxIndexTx}, MaxFoldList)

\* the orders in which three lists are combined
Orders == {o \in [1..3 -> 1..3] : \A i, j \in 1..3 : o[i] = o[j] => i = j}

RECURSIVE fold_combine(_, _)
\* the lists combined one after the other into the first: acc.combine(list)
fold_combine(acc, lists) ==
    IF lists = <<>> THEN acc
    ELSE fold_combine(combine(acc, Head(lists)), Tail(lists))

\* the three lists combined in every order
Fold ==
    /\ cmb_fold = None
    /\ cmb_fold' = Some([o \in Orders |->
                          LET lists == <<cmb_a, cmb_b, cmb_c>>
                          IN  fold_combine(lists[o[1]], <<lists[o[2]], lists[o[3]]>>)])
    /\ UNCHANGED <<cmb_a, cmb_b, cmb_c, cmb_ab, cmb_ba>>

InitCombineState ==
    /\ cmb_a = <<>>
    /\ cmb_b = <<>>
    /\ cmb_ab = None
    /\ cmb_ba = None
    /\ cmb_c = <<>>
    /\ cmb_fold = None

\* ------------------------------------------------------ host: EventScheduler
\* (variant of poll: the listener is looked at before the interrupt)
poll_accept_first(dropped, accept, timeout) ==
    IF accept = "ok" THEN "Accept"
    ELSE IF dropped THEN "Interrupt"
    ELSE IF accept = "err" \/ timeout THEN "PerformFmd"
    ELSE "Pending"

\* NextQuery::poll on what its three futures return: `dropped` is TRUE for
\* Poll::Ready, `accept` is "ok", "err" or "pending", `timeout` is TRUE for
\* Poll::Ready
poll(dropped, accept, timeout) ==
    IF dropped THEN "Interrupt"
    ELSE IF accept = "ok" THEN "Accept"
    ELSE IF accept = "err" THEN "PerformFmd"
    ELSE IF timeout THEN "PerformFmd"
    ELSE "Pending"

\* main, one iteration of the loop up to the match on the event: next_query
\* is polled with the listener's accept returning `accept`
SchedPoll(accept) ==
    /\ sched_pc = "poll"
    /\ accept = "ok" => backlog > 0
    /\ accept = "pending" => backlog = 0
    /\ LET event == poll(interrupt_fired, accept, timeout_elapsed)
       IN  /\ event # "Pending"
           /\ sched_event' = event
           /\ sched_seen' = [dropped |-> interrupt_fired, accept |-> accept,
                             timeout |-> timeout_elapsed]
           /\ sched_pc' = CASE event = "Interrupt" -> "closed"
                            [] event = "Accept" -> "accept"
                            [] OTHER -> "fmd"
           /\ backlog' = IF event = "Accept" THEN backlog - 1 ELSE backlog
           /\ interrupt_fired' = IF event = "Interrupt" THEN FALSE ELSE interrupt_fired
    /\ UNCHANGED timeout_elapsed

\* main: the handler of the event returns and next_query makes a new Sleep
SchedHandlerReturns ==
    /\ sched_pc \in {"accept", "fmd"}
    /\ sched_pc' = "poll"
    /\ timeout_elapsed' = FALSE
    /\ UNCHANGED <<sched_event, sched_seen, interrupt_fired, backlog>>

\* the 10 ms of the Sleep elapse
SchedTimeout ==
    /\ sched_pc = "poll"
    /\ ~timeout_elapsed
    /\ timeout_elapsed' = TRUE
    /\ UNCHANGED <<sched_pc, sched_event, sched_seen, interrupt_fired, backlog>>

\* a client connects to the listener
ClientConnects ==
    /\ sched_pc # "closed"
    /\ backlog < MaxBacklog
    /\ backlog' = backlog + 1
    /\ UNCHANGED <<sched_pc, sched_event, sched_seen, interrupt_fired, timeout_elapsed>>

\* an InterruptFlag is dropped: the fetch task has ended
InterruptFires ==
    /\ sched_pc # "closed"
    /\ ~interrupt_fired
    /\ interrupt_fired' = TRUE
    /\ UNCHANGED <<sched_pc, sched_event, sched_seen, backlog, timeout_elapsed>>

\* main before the first next_query
InitSchedState ==
    /\ sched_pc = "poll"
    /\ sched_event = "Pending"
    /\ sched_seen = [dropped |-> FALSE, accept |-> "pending", timeout |-> FALSE]
    /\ interrupt_fired = FALSE
    /\ backlog = 0
    /\ timeout_elapsed = FALSE

\* ------------------------------------------------------------ FetchedRanges
\* FetchedRanges::first
first(fr) == IF fr = <<>> THEN 1 ELSE fr[2] + 1

\* FetchedRanges::contains
contains(fr, height) ==
    \E c \in 1..(Len(fr) \div 2) : fr[2 * c - 1] <= height /\ height <= fr[2 * c]

\* Vec::insert at the 0-based position ix
InsertAt(v, ix, x) == SubSeq(v, 1, ix) \o <<x>> \o SubSeq(v, ix + 1, Len(v))

\* FetchedRanges::find_index: the 0-based position of the first bound > h
find_index(v, h) ==
    IF \E i \in 1..Len(v) : v[i] > h
    THEN (CHOOSE i \in 1..Len(v) : v[i] > h /\ \A j \in 1..(i - 1) : v[j] <= h) - 1
    ELSE Len(v)

RECURSIVE simplify_from(_, _, _)
\* FetchedRanges::simplify, the loop from the 0-based even position ix
simplify_from(v, ix, simplified) ==
    IF ix >= Len(v) THEN Append(simplified, v[Len(v)])
    ELSE IF ix = 0 THEN simplify_from(v, 2, <<v[1]>>)
    ELSE IF v[ix] = v[ix + 1] - 1 \/ v[ix] = v[ix + 1]
    THEN simplify_from(v, ix + 2, simplified)
    ELSE simplify_from(v, ix + 2, simplified \o <<v[ix], v[ix + 1]>>)

\* (variant of simplify: the vector is left as it is)
simplify_skipped(v) == v

\* FetchedRanges::simplify
simplify(v) == IF v = <<>> THEN v ELSE simplify_from(v, 0, <<>>)

\* FetchedRanges::insert
insert(fr, from, to) ==
    IF fr = <<>> THEN <<from, to>>
    ELSE LET contains_to == contains(fr, to)
             kept == SelectSeq(fr, LAMBDA x : x < from \/ x > to)
             from_ix == find_index(kept, from)
             with_to == IF ~contains_to THEN InsertAt(kept, from_ix, to) ELSE kept
             with_from == IF from_ix % 2 = 0 THEN InsertAt(with_to, from_ix, from)
                          ELSE with_to
         IN  simplify(with_from)

RECURSIVE blocks_left_from(_, _, _, _, _, _)
\* FetchedRanges::blocks_left_to_fetch, the loop from `height` on
blocks_left_from(fr, height, to, current_from, need_to_fetch, to_fetch) ==
    IF height > to
    THEN IF need_to_fetch THEN Append(to_fetch, <<current_from, to>>) ELSE to_fetch
    ELSE LET height_in_cache == contains(fr, height)
         IN  IF need_to_fetch /\ height_in_cache
             THEN blocks_left_from(fr, height + 1, to, current_from, FALSE,
                      IF height > current_from
                      THEN Append(to_fetch, <<current_from, height - 1>>)
                      ELSE to_fetch)
             ELSE IF ~need_to_fetch /\ ~height_in_cache
             THEN blocks_left_from(fr, height + 1, to, height, TRUE, to_fetch)
             ELSE blocks_left_from(fr, height + 1, to, current_from, need_to_fetch, to_fetch)

\* (variant of blocks_left_to_fetch: the whole of [from, to] unless all of it
\* is contained)
blocks_left_whole(fr, from, to) ==
    IF \A h \in from..to : contains(fr, h) THEN <<>> ELSE <<<<from, to>>>>

\* FetchedRanges::blocks_left_to_fetch, for 1 <= from <= to
blocks_left_to_fetch(fr, from, to) == blocks_left_from(fr, from, to, from, TRUE, <<>>)

\* FetchedRanges::default, no method called yet
NoCall == [kind |-> "none", from |-> 1, to |-> 1, before |-> <<>>, left |-> <<>>,
           again |-> <<>>]
InitRangesState ==
    /\ fetched_ranges = <<>>
    /\ ranges_call = NoCall
    /\ ranges_fresh = TRUE

\* self.insert(from, to); the record keeps what the same call returns when
\* it is made once more
RangesInsert(from, to) ==
    /\ fetched_ranges' = insert(fetched_ranges, from, to)
    /\ ranges_call' = [kind |-> "insert", from |-> from, to |-> to,
                       before |-> fetched_ranges, left |-> <<>>,
                       again |-> insert(fetched_ranges', from, to)]
    /\ UNCHANGED ranges_fresh

\* self.blocks_left_to_fetch(from, to)
RangesBlocksLeft(from, to) ==
    /\ ranges_call' = [kind |-> "blocks_left_to_fetch", from |-> from, to |-> to,
                       before |-> fetched_ranges, again |-> fetched_ranges,
                       left |-> blocks_left_to_fetch(fetched_ranges, from, to)]
    /\ UNCHANGED <<fetched_ranges, ranges_fresh>>

RECURSIVE borsh_heights(_)
\* BorshSerialize of the elements of a Vec<BlockHeight>: u64, little endian
borsh_heights(v) ==
    IF v = <<>> THEN <<>> ELSE to_le_bytes(Head(v), 8) \o borsh_heights(Tail(v))

\* BorshSerialize for FetchedRanges: the u32 length, then the elements
serialize_to_vec(fr) == to_le_bytes(Len(fr), 4) \o borsh_heights(fr)

\* BorshDeserialize for FetchedRanges: [ok, val]
try_from_slice(bytes) ==
    IF Len(bytes) < 4 THEN [ok |-> FALSE, val |-> <<>>]
    ELSE LET n == from_le_bytes(SubSeq(bytes, 1, 4))
         IN  IF Len(bytes) # 4 + 8 * n THEN [ok |-> FALSE, val |-> <<>>]
             ELSE [ok |-> TRUE,
                   val |-> [i \in 1..n |->
                              from_le_bytes(SubSeq(bytes, 8 * i - 3, 8 * i + 4))]]

\* ------------------------------------------------------- fetcher (collector)
\* MaspClient::fetch_shielded_transfers: every block holds one MASP tx
fetch_shielded_transfers(from, to) == {Index(h, 0) : h \in from..to}

\* (variant of sync_tasks: only the first batch is spawned)
sync_tasks_one_batch(fr, latest) ==
    LET from == first(fr)
        to == Min(from + BatchSize - 1, latest)
        left == blocks_left_to_fetch(fr, from, to)
    IN  {left[i] : i \in 1..Len(left)}
\* Fetcher::sync, the ranges of the tasks it spawns
sync_tasks(fr, latest) ==
    UNION {LET from == first(fr) + j * BatchSize
               to == Min(from + BatchSize - 1, latest)
               left == blocks_left_to_fetch(fr, from, to)
           IN  {left[i] : i \in 1..Len(left)} :
           j \in {n \in 0..latest : first(fr) + n * BatchSize <= latest}}

\* Fetcher::run, one iteration: sync up to the first read of a message
FetchSync ==
    /\ fetch_state = "running"
    /\ pending = {}
    /\ \E tip \in 1..MaxChain :
          /\ tip >= latest_height
          /\ latest_height' = tip
          /\ pending' = IF first(fetched) > tip THEN {} ELSE sync_tasks(fetched, tip)
    /\ UNCHANGED <<fetched, synced_to_watch, published, wal, txs_table, max_wal_size,
                   fetch_state, nfailed, fetcher_dat>>

\* DbConn::extend: the write-ahead log and the Txs rows afterwards
extend(w, table, items, limit) ==
    IF Cardinality(w \cup items) >= limit
    THEN [wal |-> {}, txs |-> table \cup w \cup items]
    ELSE [wal |-> w \cup items, txs |-> table]

\* Fetcher::handle_fetched on the message of one task, which fetched its
\* range (ok) or failed and is spawned again
HandleFetched(task, ok) ==
    /\ fetch_state = "running"
    /\ task \in pending
    /\ IF ok
       THEN LET db == extend(wal, txs_table,
                             fetch_shielded_transfers(task[1], task[2]), max_wal_size)
            IN  /\ fetched' = insert(fetched, task[1], task[2])
                /\ synced_to_watch' = first(fetched') - 1
                /\ published' = Some(first(fetched') - 1)
                /\ wal' = db.wal
                /\ txs_table' = db.txs
                /\ pending' = pending \ {task}
                /\ UNCHANGED nfailed
       ELSE /\ nfailed < MaxFailures
            /\ nfailed' = nfailed + 1
            /\ UNCHANGED <<fetched, synced_to_watch, published, wal, txs_table, pending>>
    /\ UNCHANGED <<latest_height, max_wal_size, fetch_state, fetcher_dat>>

\* the shutdown signal: run returns, start_updates saves the ranges and the
\* Fetcher is dropped (Drop for DbConn writes the log to Txs)
FetchInterrupt ==
    /\ fetch_state = "running"
    /\ fetch_state' = "stopped"
    /\ fetcher_dat' = Some(serialize_to_vec(fetched))
    /\ txs_table' = txs_table \cup wal
    /\ wal' = {}
    /\ pending' = {}
    /\ UNCHANGED <<fetched, latest_height, synced_to_watch, published, max_wal_size,
                   nfailed>>

\* DB::start_updates: nothing fetched, the watch channel holds 1
InitFetchState ==
    /\ fetched = <<>>
    /\ latest_height = 1
    /\ pending = {}
    /\ synced_to_watch = 1
    /\ published = None
    /\ wal = {}
    /\ txs_table = {}
    /\ max_wal_size = 1
    /\ fetch_state = "running"
    /\ nfailed = 0
    /\ fetcher_dat = None
    /\ InitStopState
    /\ InitTasksState
    /\ InitFlagsState
    /\ InitFrameState
    /\ InitCombineState
    /\ InitSchedState
    /\ InitRangesState
    /\ tick_pc = "idle"
    /\ tick_heights = <<>>
    /\ tick_flags = <<>>

\* ---------------------------------------------------------- host: handle_fmd
RECURSIVE SortedSeq(_)
\* sort and dedup of a set of heights
SortedSeq(S) ==
    IF S = {} THEN <<>>
    ELSE LET m == CHOOSE x \in S : \A y \in S : x <= y
         IN  <<m>> \o SortedSeq(S \ {m})

\* DB::get_height: the rows of Txs at the height; the flag column is empty
\* and parses to None
get_height(table, height) ==
    LET rows == {ix \in table : ix.height = height}
        order == SortedSeq({ix.tx : ix \in rows})
    IN  [i \in 1..Len(order) |-> FlagEntry(Index(height, order[i]), None)]

RECURSIVE update_indices(_, _)
\* DB::update_indices: INSERT OR REPLACE, in order
update_indices(table, new_indices) ==
    IF new_indices = <<>> THEN table
    ELSE update_indices([table EXCEPT ![Head(new_indices).owner] = Some(Head(new_indices))],
                        Tail(new_indices))

\* handle_fmd up to the first query of Txs: RequiredBlocks is answered by
\* the enclave's BlockRequests
TickStart ==
    /\ fetch_state = "running"
    /\ tick_pc = "idle"
    /\ nticks < MaxTicks
    /\ EnclaveRequiredBlocks(RequiredBlocks, <<>>)
    /\ enc_in' = RequiredBlocks
    /\ LET ranges == to_host'[1].heights
           heights == SortedSeq({ranges[i] : i \in 1..Len(ranges)})
       IN  /\ tick_heights' = heights
           /\ tick_pc' = IF heights = <<>> THEN "idle" ELSE "reading"
    /\ tick_flags' = <<>>
    /\ UNCHANGED <<indices_table, collector_vars>>

\* handle_fmd, one db.get_height of the flat_map
TickGetHeight ==
    /\ tick_pc = "reading"
    /\ tick_heights # <<>>
    /\ tick_flags' = tick_flags \o get_height(txs_table, Head(tick_heights))
    /\ tick_heights' = Tail(tick_heights)
    /\ UNCHANGED <<tick_pc, enclave_vars, indices_table, collector_vars>>

\* handle_fmd from db.synced_to() to its return: RequestedFlags is answered
\* by the enclave's FmdResults
TickSend ==
    /\ tick_pc = "reading"
    /\ tick_heights = <<>>
    /\ LET msg == RequestedFlags(synced_to_watch, tick_flags)
       IN  /\ EnclaveRequestedFlags(msg, <<>>)
           /\ enc_in' = msg
    /\ indices_table' = IF to_host'[1].type = "FmdResults"
                        THEN update_indices(indices_table, to_host'[1].results)
                        ELSE indices_table
    /\ tick_pc' = "idle"
    /\ UNCHANGED <<tick_heights, tick_flags, collector_vars>>

\* ------------------------------------------------ the enclave under any host
\* Ctx::init and the empty registered_keys of main
InitEnclaveState ==
    /\ registered_keys = <<>>
    /\ enc_pc = "main"
    /\ enc_conn = 0
    /\ to_host = <<>>
    /\ enc_in = Basic
    /\ emitted = [o \in KeyIds |-> <<>>]
    /\ hist = <<>>
    /\ nticks = 0
    /\ to_enclave = <<>>

InitEnclave ==
    /\ InitEnclaveState
    /\ deployment \in {"tdx", "transparent"}
    /\ InitHostState
    /\ InitClientState
    /\ InitVerifyState
    /\ InitFetchState

\* the frame read is recorded; nothing outside the enclave changes
EnclaveRead(msg) ==
    /\ enc_in' = msg
    /\ UNCHANGED <<deployment, host_vars, channel_vars, client_vars, verify_vars,
                   fetch_vars, ranges_vars, stop_vars, tasks_vars, flags_vars, frame_vars,
                   combine_vars, sched_vars>>

\* The host has read every earlier reply and sends any frame.
NextEnclave ==
    \/ \E msg \in HostFrames : EnclaveRegisterKey(msg, <<>>) /\ EnclaveRead(msg)
    \/ \E msg \in HostFrames : EnclaveAck(msg, <<>>) /\ EnclaveRead(msg)
    \/ \E msg \in HostFrames : EnclaveRequestReport(msg, <<>>) /\ EnclaveRead(msg)
    \/ \E msg \in HostFrames : EnclaveRequiredBlocks(msg, <<>>) /\ EnclaveRead(msg)
    \/ \E msg \in HostFrames : EnclaveRequestedFlags(msg, <<>>) /\ EnclaveRead(msg)
    \/ \E msg \in HostFrames : EnclaveIgnore(msg, <<>>) /\ EnclaveRead(msg)
    \/ \E msg \in HostFrames : EnclaveReadError(msg, <<>>) /\ EnclaveRead(msg)
    \/ EnclaveReadPanics(<<>>) /\ EnclaveRead(IoError)

SpecEnclave == InitEnclave /\ [][NextEnclave]_vars

\* ------------------------------------------ the host relay under any peers
InitHost ==
    /\ InitEnclaveState
    /\ deployment = "tdx"
    /\ h_pc = "accept"
    /\ h_in = Basic
    /\ h_to_enclave = <<>>
    /\ h_to_client = <<>>
    /\ \E stored \in SUBSET KeyIds :
          indices_table = [o \in KeyIds |->
              IF o \in stored
              THEN Some([owner |-> hash(o), key |-> o, indices |-> <<>>, height |-> 1])
              ELSE None]
    /\ InitClientState
    /\ InitVerifyState
    /\ InitFetchState

\* The client and the enclave send any frame.
HostOnly ==
    UNCHANGED <<enclave_vars, deployment, channel_vars, client_vars, verify_vars, fetch_vars,
                ranges_vars, stop_vars, tasks_vars, flags_vars, frame_vars, combine_vars,
                    sched_vars>>

NextHost ==
    \/ \E req \in ClientFrames : HostAccept(req) /\ HostOnly
    \/ \E msg \in EnclaveFrames : HostRound1(msg) /\ HostOnly
    \/ \E req \in ClientFrames : HostClientAck(req) /\ HostOnly
    \/ \E msg \in EnclaveFrames : HostRound2(msg) /\ HostOnly

SpecHost == InitHost /\ [][NextHost]_vars

\* -------------------------------------------- the client under any server
InitClient ==
    /\ InitEnclaveState
    /\ deployment = "tdx"
    /\ InitHostState
    /\ InitVerifyState
    /\ InitFetchState
    /\ cl_pc = "start"
    /\ cl_nonce \in Nonces
    /\ cl_secret \in ClientSecrets
    /\ cl_key \in Registrations
    /\ cl_report = None
    /\ cl_sent = <<>>

ClientOnly ==
    UNCHANGED <<enclave_vars, deployment, host_vars, channel_vars, verify_vars, fetch_vars,
                ranges_vars, stop_vars, tasks_vars, flags_vars, frame_vars, combine_vars,
                    sched_vars>>

NextClient ==
    \/ ClientHello /\ ClientOnly
    \/ \E resp \in ServerFrames : ClientReport(resp) /\ ClientOnly
    \/ \E resp \in ServerFrames : ClientResult(resp) /\ ClientOnly

SpecClient == InitClient /\ [][NextClient]_vars

\* ------------------------------------------- verify_quote on any report
InitVerify ==
    /\ InitEnclaveState
    /\ deployment = "tdx"
    /\ InitHostState
    /\ InitClientState
    /\ v_verifier \in {"tdx", "transparent"}
    /\ v_report \in Reports
    /\ v_nonce \in Nonces
    /\ v_result = None
    /\ InitFetchState

NextVerify ==
    /\ Verify
    /\ UNCHANGED <<enclave_vars, deployment, host_vars, channel_vars, client_vars,
                   fetch_vars, ranges_vars, stop_vars, tasks_vars, flags_vars, frame_vars,
                   combine_vars, sched_vars>>

SpecVerify == InitVerify /\ [][NextVerify]_vars

\* ----------------------------- the fetcher and the FMD tick, side by side
\* One key is registered; the collector starts with nothing fetched.
InitFetch ==
    /\ enc_pc = "main"
    /\ enc_conn = 0
    /\ to_host = <<KeyRegSuccess>>
    /\ enc_in = Basic
    /\ emitted = [o \in KeyIds |-> <<>>]
    /\ nticks = 0
    /\ to_enclave = <<>>
    /\ \E b \in Birthdays :
          /\ registered_keys = push_key(<<>>, [fmd_key |-> 1, enc_key |-> 1, birthday |-> b])
          /\ hist = <<[s |-> unwrap_or(b, 1), n |-> 0, k |-> 0, same |-> TRUE]>>
    /\ deployment = "tdx"
    /\ InitHostState
    /\ InitClientState
    /\ InitVerifyState
    /\ fetched = <<>>
    /\ latest_height = 1
    /\ pending = {}
    /\ synced_to_watch = 1
    /\ published = None
    /\ wal = {}
    /\ txs_table = {}
    /\ max_wal_size \in 1..MaxWalSize
    /\ fetch_state = "running"
    /\ nfailed = 0
    /\ fetcher_dat = None
    /\ InitStopState
    /\ InitTasksState
    /\ InitFlagsState
    /\ InitFrameState
    /\ InitCombineState
    /\ InitSchedState
    /\ InitRangesState
    /\ tick_pc = "idle"
    /\ tick_heights = <<>>
    /\ tick_flags = <<>>

CollectorOnly ==
    UNCHANGED <<enclave_vars, indices_table, tick_vars, deployment, relay_vars,
                channel_vars, client_vars, verify_vars, ranges_vars, stop_vars, tasks_vars,
                flags_vars, frame_vars,
                combine_vars, sched_vars>>
TickOnly ==
    UNCHANGED <<deployment, relay_vars, channel_vars, client_vars, verify_vars,
                ranges_vars, stop_vars, tasks_vars, flags_vars, frame_vars, combine_vars,
                    sched_vars>>

NextFetch ==
    \/ FetchSync /\ CollectorOnly
    \/ \E task \in pending, ok \in BOOLEAN : HandleFetched(task, ok) /\ CollectorOnly
    \/ FetchInterrupt /\ CollectorOnly
    \/ TickStart /\ TickOnly
    \/ TickGetHeight /\ TickOnly
    \/ TickSend /\ TickOnly

SpecFetch == InitFetch /\ [][NextFetch]_vars

\* --------------------------------- the collector alone, with no shutdown
\* Every fetch task fails finitely often: a task that is pending is
\* eventually handled with the result of a fetch that went through.
NextCycle ==
    \/ FetchSync /\ CollectorOnly
    \/ \E task \in pending : HandleFetched(task, TRUE) /\ CollectorOnly
    \/ \E task \in pending : HandleFetched(task, FALSE) /\ CollectorOnly

SpecCycle ==
    /\ InitFetch
    /\ [][NextCycle]_vars
    /\ WF_vars(\E task \in pending : HandleFetched(task, TRUE) /\ CollectorOnly)

\* --------------------------- the collector over a shutdown and a restart
\* the host is started again: DB::start_updates makes a watch channel holding
\* 1 and Fetcher::new reads fetcher.dat into the ranges; the log is empty
FetchRestart ==
    /\ fetch_state = "stopped"
    /\ IsSome(fetcher_dat)
    /\ try_from_slice(fetcher_dat[1]).ok
    /\ fetched' = try_from_slice(fetcher_dat[1]).val
    /\ fetch_state' = "running"
    /\ synced_to_watch' = 1
    /\ published' = None
    /\ pending' = {}
    /\ wal' = {}
    /\ UNCHANGED <<latest_height, txs_table, max_wal_size, nfailed, fetcher_dat>>

\* The host is shut down once, at any point of a cycle, and started again.
NextRestart ==
    \/ FetchSync /\ CollectorOnly
    \/ \E task \in pending : HandleFetched(task, TRUE) /\ CollectorOnly
    \/ \E task \in pending : HandleFetched(task, FALSE) /\ CollectorOnly
    \/ fetcher_dat = None /\ FetchInterrupt /\ CollectorOnly
    \/ FetchRestart /\ CollectorOnly

\* The indexer eventually answers every task, run starts cycle after cycle,
\* and the host that was shut down is started again.
SpecRestart ==
    /\ InitFetch
    /\ [][NextRestart]_vars
    /\ WF_vars(FetchSync /\ CollectorOnly)
    /\ WF_vars(\E task \in pending : HandleFetched(task, TRUE) /\ CollectorOnly)
    /\ WF_vars(FetchRestart /\ CollectorOnly)

\* ------------------------------------ the steps of the collector's shutdown
\* the task of DB::start_updates after run has returned: save writes the
\* ranges to fetcher.dat, the log is still in memory
FetchSave ==
    /\ fetch_state = "running"
    /\ fetch_state' = "saved"
    /\ fetcher_dat' = Some(serialize_to_vec(fetched))
    /\ pending' = {}
    /\ UNCHANGED <<fetched, latest_height, synced_to_watch, published, wal, txs_table,
                   max_wal_size, nfailed>>

\* the task ends and the Fetcher is dropped: Drop for DbConn takes the log and
\* inserts it into Txs, or returns at once when the statement is not prepared
FetchDrop(prepared) ==
    /\ fetch_state = "saved"
    /\ fetch_state' = "stopped"
    /\ wal' = {}
    /\ txs_table' = IF prepared THEN txs_table \cup wal ELSE txs_table
    /\ UNCHANGED <<fetched, latest_height, synced_to_watch, published, pending,
                   max_wal_size, nfailed, fetcher_dat>>

\* the process stops where it is (a kill, a power cut): memory is lost, the
\* files stay as they are
ProcessStop ==
    /\ fetch_state \in {"running", "saved"}
    /\ fetch_state' = "killed"
    /\ wal' = {}
    /\ pending' = {}
    /\ UNCHANGED <<fetched, latest_height, synced_to_watch, published, txs_table,
                   max_wal_size, nfailed, fetcher_dat>>

NextStop ==
    \/ FetchSync /\ CollectorOnly
    \/ \E task \in pending : HandleFetched(task, TRUE) /\ CollectorOnly
    \/ \E task \in pending : HandleFetched(task, FALSE) /\ CollectorOnly
    \/ FetchSave /\ CollectorOnly
    \/ FetchDrop(TRUE) /\ CollectorOnly
    \/ FetchDrop(FALSE) /\ CollectorOnly
    \/ ProcessStop /\ CollectorOnly

SpecStop == InitFetch /\ [][NextStop]_vars

\* -------------------------------------- FetchedRanges under any calls
RECURSIVE ranges_of(_, _)
\* the vector of bounds of the maximal runs of S from height h on
ranges_of(S, h) ==
    IF h > MaxRange THEN <<>>
    ELSE IF h \notin S THEN ranges_of(S, h + 1)
    ELSE LET e == CHOOSE e \in h..MaxRange :
                     /\ \A x \in h..e : x \in S
                     /\ (e + 1) \notin S
         IN  <<h, e>> \o ranges_of(S, e + 2)

\* The ranges start empty, or as any set of disjoint, non-adjacent intervals
\* (as read from fetcher.dat).
InitRanges ==
    /\ InitEnclaveState
    /\ deployment = "tdx"
    /\ InitHostState
    /\ InitClientState
    /\ InitVerifyState
    /\ fetched = <<>>
    /\ latest_height = 1
    /\ pending = {}
    /\ synced_to_watch = 1
    /\ published = None
    /\ wal = {}
    /\ txs_table = {}
    /\ max_wal_size = 1
    /\ fetch_state = "running"
    /\ nfailed = 0
    /\ fetcher_dat = None
    /\ InitStopState
    /\ InitTasksState
    /\ InitFlagsState
    /\ InitFrameState
    /\ InitCombineState
    /\ InitSchedState
    /\ tick_pc = "idle"
    /\ tick_heights = <<>>
    /\ tick_flags = <<>>
    /\ ranges_call = NoCall
    /\ \/ fetched_ranges = <<>> /\ ranges_fresh = TRUE
       \/ /\ fetched_ranges \in {ranges_of(S, 1) : S \in SUBSET (1..MaxRange)}
          /\ ranges_fresh = FALSE

RangesOnly ==
    UNCHANGED <<enclave_vars, deployment, host_vars, channel_vars, client_vars, verify_vars,
                fetch_vars, sched_vars, combine_vars, frame_vars, flags_vars, tasks_vars,
                    stop_vars>>

NextRanges ==
    \/ \E from \in 1..MaxRange, to \in 1..MaxRange :
          from <= to /\ RangesInsert(from, to) /\ RangesOnly
    \/ \E from \in 1..MaxRange, to \in 1..MaxRange :
          from <= to /\ RangesBlocksLeft(from, to) /\ RangesOnly

SpecRanges == InitRanges /\ [][NextRanges]_vars

\* ------------------------------------------- the event loop of the host
InitSched == InitEnclave /\ deployment = "tdx"

SchedOnly ==
    UNCHANGED <<enclave_vars, deployment, host_vars, channel_vars, client_vars, verify_vars,
                fetch_vars, ranges_vars, stop_vars, tasks_vars, flags_vars, frame_vars,
                    combine_vars>>

NextSched ==
    \/ \E accept \in {"ok", "err", "pending"} : SchedPoll(accept) /\ SchedOnly
    \/ SchedHandlerReturns /\ SchedOnly
    \/ SchedTimeout /\ SchedOnly
    \/ ClientConnects /\ SchedOnly
    \/ InterruptFires /\ SchedOnly

SpecSched == InitSched /\ [][NextSched]_vars

\* The loop is polled whenever an event is ready, a handler returns (see
\* C11 for the handler of a key registration), and the Sleep elapses.
SpecSchedLive ==
    /\ SpecSched
    /\ WF_vars(\E accept \in {"ok", "err", "pending"} : SchedPoll(accept) /\ SchedOnly)
    /\ WF_vars(SchedHandlerReturns /\ SchedOnly)
    /\ WF_vars(SchedTimeout /\ SchedOnly)

\* ------------------------------------------- combine on any two lists
InitCombine ==
    /\ InitEnclaveState
    /\ deployment = "tdx"
    /\ InitHostState
    /\ InitClientState
    /\ InitVerifyState
    /\ fetched = <<>>
    /\ latest_height = 1
    /\ pending = {}
    /\ synced_to_watch = 1
    /\ published = None
    /\ wal = {}
    /\ txs_table = {}
    /\ max_wal_size = 1
    /\ fetch_state = "running"
    /\ nfailed = 0
    /\ fetcher_dat = None
    /\ InitStopState
    /\ InitTasksState
    /\ InitFlagsState
    /\ InitFrameState
    /\ tick_pc = "idle"
    /\ tick_heights = <<>>
    /\ tick_flags = <<>>
    /\ InitRangesState
    /\ InitSchedState
    /\ cmb_a \in IndexLists
    /\ cmb_b \in IndexLists
    /\ cmb_ab = None
    /\ cmb_ba = None
    /\ cmb_c = <<>>
    /\ cmb_fold = None

CombineOnly ==
    UNCHANGED <<enclave_vars, deployment, host_vars, channel_vars, client_vars, verify_vars,
                fetch_vars, ranges_vars, stop_vars, tasks_vars, flags_vars, frame_vars,
                    sched_vars>>

NextCombine == Combine /\ CombineOnly

SpecCombine == InitCombine /\ [][NextCombine]_vars

\* three lists, combined in every order
InitFold ==
    /\ InitEnclaveState
    /\ deployment = "tdx"
    /\ InitHostState
    /\ InitClientState
    /\ InitVerifyState
    /\ fetched = <<>>
    /\ latest_height = 1
    /\ pending = {}
    /\ synced_to_watch = 1
    /\ published = None
    /\ wal = {}
    /\ txs_table = {}
    /\ max_wal_size = 1
    /\ fetch_state = "running"
    /\ nfailed = 0
    /\ fetcher_dat = None
    /\ InitStopState
    /\ InitTasksState
    /\ InitFlagsState
    /\ InitFrameState
    /\ tick_pc = "idle"
    /\ tick_heights = <<>>
    /\ tick_flags = <<>>
    /\ InitRangesState
    /\ InitSchedState
    /\ cmb_a \in FoldLists
    /\ cmb_b \in FoldLists
    /\ cmb_ab = None
    /\ cmb_ba = None
    /\ cmb_c \in FoldLists
    /\ cmb_fold = None

NextFold == Fold /\ CombineOnly

SpecFold == InitFold /\ [][NextFold]_vars

\* ------------------------------------- a byte channel under any messages
InitFrame ==
    /\ InitEnclaveState
    /\ deployment = "tdx"
    /\ InitHostState
    /\ InitClientState
    /\ InitVerifyState
    /\ fetched = <<>>
    /\ latest_height = 1
    /\ pending = {}
    /\ synced_to_watch = 1
    /\ published = None
    /\ wal = {}
    /\ txs_table = {}
    /\ max_wal_size = 1
    /\ fetch_state = "running"
    /\ nfailed = 0
    /\ fetcher_dat = None
    /\ InitStopState
    /\ InitTasksState
    /\ InitFlagsState
    /\ tick_pc = "idle"
    /\ tick_heights = <<>>
    /\ tick_flags = <<>>
    /\ InitRangesState
    /\ InitSchedState
    /\ InitCombineState
    /\ frm_size \in 2..MaxFrameBuf
    /\ frm_chan = <<>>
    /\ frm_sent = <<>>
    /\ frm_recv = <<>>

FrameOnly ==
    UNCHANGED <<enclave_vars, deployment, host_vars, channel_vars, client_vars,
                verify_vars, fetch_vars, ranges_vars, stop_vars, tasks_vars, flags_vars,
                combine_vars, sched_vars>>

NextFrame ==
    \/ \E msg \in FrameMsgs : WriteFrame(msg) /\ FrameOnly
    \/ ReadFrame /\ FrameOnly

SpecFrame == InitFrame /\ [][NextFrame]_vars

\* ------------------------------------------- check_flags on any input
\* the registered keys and the entries check_flags is applied to
TickKeys ==
    SeqsUpTo({[key |-> [fmd_key |-> k, enc_key |-> k, birthday |-> None],
               ixset |-> [synced_to |-> c, indices |-> ixs]] :
                 k \in KeyIds, c \in 0..(MaxHeight - 1),
                 ixs \in {<<>>, <<Index(1, 0)>>}}, MaxKeys)
TickFlagLists ==
    SeqsUpTo({FlagEntry(Index(h, t), f) :
                 h \in 1..MaxHeight, t \in 0..MaxIndexTx, f \in {None, Some(1)}},
             MaxTickFlags)

\* main, arm RequestedFlags, on its own
CheckFlags ==
    /\ cf_out = None
    /\ \E enc_fails \in SUBSET (1..Len(cf_keys)) :
          cf_out' = Some(check_flags(cf_keys, cf_synced_to, cf_flags, enc_fails))
    /\ UNCHANGED <<cf_keys, cf_synced_to, cf_flags>>

InitFlags ==
    /\ InitEnclaveState
    /\ deployment = "tdx"
    /\ InitHostState
    /\ InitClientState
    /\ InitVerifyState
    /\ fetched = <<>>
    /\ latest_height = 1
    /\ pending = {}
    /\ synced_to_watch = 1
    /\ published = None
    /\ wal = {}
    /\ txs_table = {}
    /\ max_wal_size = 1
    /\ fetch_state = "running"
    /\ nfailed = 0
    /\ fetcher_dat = None
    /\ InitStopState
    /\ InitTasksState
    /\ tick_pc = "idle"
    /\ tick_heights = <<>>
    /\ tick_flags = <<>>
    /\ InitRangesState
    /\ InitSchedState
    /\ InitCombineState
    /\ InitFrameState
    /\ cf_keys \in TickKeys
    /\ cf_synced_to \in 1..MaxHeight
    /\ cf_flags \in TickFlagLists
    /\ cf_out = None

FlagsOnly ==
    UNCHANGED <<enclave_vars, deployment, host_vars, channel_vars, client_vars,
                verify_vars, fetch_vars, ranges_vars, stop_vars, tasks_vars,
                    combine_vars, sched_vars,
                frame_vars>>

NextFlags == CheckFlags /\ FlagsOnly

SpecFlags == InitFlags /\ [][NextFlags]_vars

\* ------------------------------------------- keys registered with a birthday
\* main, arm RegisterKey, after register_key returned a key with birthday b
RegisterBirthday(k, b) ==
    /\ Len(cf_keys) < MaxKeys
    /\ cf_keys' = push_key(cf_keys, [fmd_key |-> k, enc_key |-> k, birthday |-> Some(b)])
    /\ cf_out' = None
    /\ UNCHANGED <<cf_synced_to, cf_flags>>

\* the flags of a tick: up to two entries, one transaction per height
BirthdayFlagLists == SeqsUpTo(FlagEntries, MaxFlags + 1)

\* main, arm RequestedFlags: the registered keys are replaced by those that
\* check_flags returns
TickBirthday ==
    /\ cf_keys # <<>>
    /\ \E k \in 1..MaxHeight, flags \in BirthdayFlagLists :
          LET res == check_flags(cf_keys, k, flags, {})
          IN  /\ cf_keys' = res.keys
              /\ cf_out' = Some(res)
              /\ cf_synced_to' = k
              /\ cf_flags' = flags

InitBirthday ==
    /\ InitEnclaveState
    /\ deployment = "tdx"
    /\ InitHostState
    /\ InitClientState
    /\ InitVerifyState
    /\ fetched = <<>>
    /\ latest_height = 1
    /\ pending = {}
    /\ synced_to_watch = 1
    /\ published = None
    /\ wal = {}
    /\ txs_table = {}
    /\ max_wal_size = 1
    /\ fetch_state = "running"
    /\ nfailed = 0
    /\ fetcher_dat = None
    /\ InitStopState
    /\ InitTasksState
    /\ tick_pc = "idle"
    /\ tick_heights = <<>>
    /\ tick_flags = <<>>
    /\ InitRangesState
    /\ InitSchedState
    /\ InitCombineState
    /\ InitFrameState
    /\ InitFlagsState

NextBirthday ==
    \/ \E k \in KeyIds, b \in 0..(MaxHeight - 1) : RegisterBirthday(k, b) /\ FlagsOnly
    \/ TickBirthday /\ FlagsOnly

SpecBirthday == InitBirthday /\ [][NextBirthday]_vars

\* ------------------------------ the fetch tasks and the collector's wait
\* Fetcher::handle_fetched as far as the tasks go: a failed task is spawned
\* again with a clone of Tasks (AsyncCounter::clone increments)
HandleMessage(msg) ==
    /\ handled_log' = Append(handled_log, msg)
    /\ IF msg.ok
       THEN UNCHANGED <<task_pc, active_tasks, nrespawn>>
       ELSE /\ task_pc' = [task_pc EXCEPT ![MaxTasks + nrespawn + 1] = "fetching"]
            /\ active_tasks' = active_tasks + 1
            /\ nrespawn' = nrespawn + 1

\* get_next_message, select polls recv_async: a queued message is returned
\* and handled; on an empty channel the receiver leaves its waker
CollectRecv ==
    /\ gm_pc = "recv"
    /\ IF messages # <<>>
       THEN /\ HandleMessage(Head(messages))
            /\ messages' = Tail(messages)
            /\ recv_hook' = FALSE
            /\ gm_pc' = "recv"
       ELSE /\ recv_hook' = TRUE
            /\ gm_pc' = "count"
            /\ UNCHANGED <<messages, handled_log, task_pc, active_tasks, nrespawn>>
    /\ UNCHANGED <<waker, notified, sent_log>>

\* AsyncCounter::poll, the test self.inner.value() == 0
CollectCount ==
    /\ gm_pc = "count"
    /\ gm_pc' = IF active_tasks = 0 THEN "try_recv" ELSE "register"
    /\ UNCHANGED <<task_pc, active_tasks, waker, messages, recv_hook, notified,
                   sent_log, handled_log, nrespawn>>

\* AsyncCounter::poll, waker.register and Poll::Pending: select is Pending
CollectRegister ==
    /\ gm_pc = "register"
    /\ waker' = TRUE
    /\ gm_pc' = "pending"
    /\ UNCHANGED <<task_pc, active_tasks, messages, recv_hook, notified,
                   sent_log, handled_log, nrespawn>>

\* the runtime polls the woken collector again
CollectWoken ==
    /\ gm_pc = "pending"
    /\ notified
    /\ notified' = FALSE
    /\ gm_pc' = "recv"
    /\ UNCHANGED <<task_pc, active_tasks, waker, messages, recv_hook,
                   sent_log, handled_log, nrespawn>>

\* (variant of the else branch: None without a look at the channel)
CollectTryRecv_none ==
    /\ gm_pc = "try_recv"
    /\ recv_hook' = FALSE
    /\ gm_pc' = "ended"
    /\ UNCHANGED <<task_pc, active_tasks, waker, messages, notified,
                   sent_log, handled_log, nrespawn>>
\* get_next_message, the else branch: message_receiver.try_recv().ok(); None
\* ends the while loop of sync
CollectTryRecv ==
    /\ gm_pc = "try_recv"
    /\ recv_hook' = FALSE
    /\ IF messages # <<>>
       THEN /\ HandleMessage(Head(messages))
            /\ messages' = Tail(messages)
            /\ gm_pc' = "recv"
       ELSE /\ gm_pc' = "ended"
            /\ UNCHANGED <<messages, handled_log, task_pc, active_tasks, nrespawn>>
    /\ UNCHANGED <<waker, notified, sent_log>>

\* spawn_fetch_txs, arm msg = fetch: the result is sent on the channel, which
\* holds at most DEFAULT_BUF_SIZE messages
TaskSend(t, ok) ==
    /\ task_pc[t] \in {"fetching", "blocked"}
    /\ Len(messages) < DEFAULT_BUF_SIZE
    /\ ok \/ nrespawn < MaxRespawns
    /\ messages' = Append(messages, [task |-> t, ok |-> ok])
    /\ sent_log' = Append(sent_log, [task |-> t, ok |-> ok])
    /\ notified' = (notified \/ recv_hook)
    /\ recv_hook' = FALSE
    /\ task_pc' = [task_pc EXCEPT ![t] = "sent"]
    /\ UNCHANGED <<active_tasks, waker, gm_pc, handled_log, nrespawn>>

\* the task returns, Drop for AsyncCounter: decrement_then_wake
TaskDecrement(t) ==
    /\ task_pc[t] = "sent"
    /\ active_tasks' = active_tasks - 1
    /\ task_pc' = [task_pc EXCEPT ![t] = IF active_tasks = 1 THEN "waking" ELSE "done"]
    /\ UNCHANGED <<waker, messages, recv_hook, notified, gm_pc, sent_log,
                   handled_log, nrespawn>>

\* Drop for AsyncCounter: self.inner.waker.wake(), which takes the waker
\* registered, if there is one
TaskWake(t) ==
    /\ task_pc[t] = "waking"
    /\ notified' = (notified \/ waker)
    /\ waker' = FALSE
    /\ task_pc' = [task_pc EXCEPT ![t] = "done"]
    /\ UNCHANGED <<active_tasks, messages, recv_hook, gm_pc, sent_log,
                   handled_log, nrespawn>>

\* Fetcher::sync has spawned the tasks of a cycle, each with a clone of Tasks
InitTasks ==
    /\ InitEnclaveState
    /\ deployment = "tdx"
    /\ InitHostState
    /\ InitClientState
    /\ InitVerifyState
    /\ fetched = <<>>
    /\ latest_height = 1
    /\ pending = {}
    /\ synced_to_watch = 1
    /\ published = None
    /\ wal = {}
    /\ txs_table = {}
    /\ max_wal_size = 1
    /\ fetch_state = "running"
    /\ nfailed = 0
    /\ fetcher_dat = None
    /\ InitStopState
    /\ tick_pc = "idle"
    /\ tick_heights = <<>>
    /\ tick_flags = <<>>
    /\ InitRangesState
    /\ InitSchedState
    /\ InitCombineState
    /\ InitFrameState
    /\ InitFlagsState
    /\ \E n \in 1..MaxTasks :
          /\ task_pc = [t \in TaskIds |-> IF t <= n THEN "fetching" ELSE "none"]
          /\ active_tasks = n
    /\ waker = FALSE
    /\ messages = <<>>
    /\ recv_hook = FALSE
    /\ notified = FALSE
    /\ gm_pc = "recv"
    /\ sent_log = <<>>
    /\ handled_log = <<>>
    /\ nrespawn = 0

TasksOnly ==
    UNCHANGED <<enclave_vars, deployment, host_vars, channel_vars, client_vars,
                verify_vars, fetch_vars, ranges_vars, stop_vars, combine_vars, sched_vars,
                frame_vars, flags_vars>>

NextTasks ==
    \/ CollectRecv /\ TasksOnly
    \/ CollectCount /\ TasksOnly
    \/ CollectRegister /\ TasksOnly
    \/ CollectWoken /\ TasksOnly
    \/ CollectTryRecv /\ TasksOnly
    \/ \E t \in TaskIds, ok \in BOOLEAN : TaskSend(t, ok) /\ TasksOnly
    \/ \E t \in TaskIds : TaskDecrement(t) /\ TasksOnly
    \/ \E t \in TaskIds : TaskWake(t) /\ TasksOnly

SpecTasks == InitTasks /\ [][NextTasks]_vars

\* The runtime runs every task that can take a step: the collector is polled
\* when it is woken and runs to its next Pending, and every fetch task sends
\* its result (the indexer answers) and returns.
SpecTasksLive ==
    /\ SpecTasks
    /\ WF_vars(CollectRecv /\ TasksOnly)
    /\ WF_vars(CollectCount /\ TasksOnly)
    /\ WF_vars(CollectRegister /\ TasksOnly)
    /\ WF_vars(CollectWoken /\ TasksOnly)
    /\ WF_vars(CollectTryRecv /\ TasksOnly)
    /\ WF_vars(\E t \in TaskIds, ok \in BOOLEAN : TaskSend(t, ok) /\ TasksOnly)
    /\ WF_vars(\E t \in TaskIds : TaskDecrement(t) /\ TasksOnly)
    /\ WF_vars(\E t \in TaskIds : TaskWake(t) /\ TasksOnly)

\* ------------------------------------ the shutdown signal, up to the host
\* the shutdown signal is received (install_shutdown_signal)
ShutdownSignal ==
    /\ ~shutdown
    /\ shutdown' = TRUE
    /\ UNCHANGED <<interrupt_flag, gm_fresh, run_pc, tasks_vars, sched_vars>>

\* get_next_message, its first statement: None when the flag is set
StopCall ==
    /\ run_pc = "sync"
    /\ gm_pc = "recv"
    /\ gm_fresh
    /\ interrupt_flag
    /\ gm_pc' = "ended"
    /\ UNCHANGED <<task_pc, active_tasks, waker, messages, recv_hook, notified,
                   sent_log, handled_log, nrespawn, stop_vars, sched_vars>>

\* the first poll of select in a call of get_next_message, or a later one;
\* a message returned goes through check_exit_conditions and handle_fetched
StopRecv ==
    /\ run_pc = "sync"
    /\ gm_fresh => ~interrupt_flag
    /\ CollectRecv
    /\ gm_fresh' = (messages # <<>>)
    /\ interrupt_flag' = (interrupt_flag \/ (messages # <<>> /\ shutdown))
    /\ UNCHANGED <<shutdown, run_pc, sched_vars>>

StopCount == CollectCount /\ UNCHANGED <<stop_vars, sched_vars>>

StopRegister == CollectRegister /\ UNCHANGED <<stop_vars, sched_vars>>

StopWoken == CollectWoken /\ UNCHANGED <<stop_vars, sched_vars>>

\* the else branch of get_next_message; a message returned goes through
\* check_exit_conditions and handle_fetched, and the loop calls again
StopTryRecv ==
    /\ CollectTryRecv
    /\ gm_fresh' = TRUE
    /\ interrupt_flag' = (interrupt_flag \/ (messages # <<>> /\ shutdown))
    /\ UNCHANGED <<shutdown, run_pc, sched_vars>>

\* spawn_fetch_txs: the fetch has returned and send_async finds a free slot;
\* a task is spawned again only while the model has a slot for it
StopTaskSend(t, ok) ==
    /\ ~ok => (nrespawn < MaxRespawns /\ task_pc[MaxTasks + nrespawn + 1] = "none")
    /\ TaskSend(t, ok)
    /\ UNCHANGED <<stop_vars, sched_vars>>

\* spawn_fetch_txs: the fetch has returned and the channel is full, send_async
\* waits; the arm of the shutdown signal is not polled any more
StopTaskBlocked(t) ==
    /\ task_pc[t] = "fetching"
    /\ Len(messages) >= DEFAULT_BUF_SIZE
    /\ task_pc' = [task_pc EXCEPT ![t] = "blocked"]
    /\ UNCHANGED <<active_tasks, waker, messages, recv_hook, notified, gm_pc, sent_log,
                   handled_log, nrespawn, stop_vars, sched_vars>>

\* spawn_fetch_txs, arm shutdown.wait_for_shutdown: the flag is set and the
\* task returns without a message
StopTaskInterrupted(t) ==
    /\ shutdown
    /\ task_pc[t] = "fetching"
    /\ interrupt_flag' = TRUE
    /\ task_pc' = [task_pc EXCEPT ![t] = "sent"]
    /\ UNCHANGED <<active_tasks, waker, messages, recv_hook, notified, gm_pc, sent_log,
                   handled_log, nrespawn, shutdown, gm_fresh, run_pc, sched_vars>>

StopTaskDecrement(t) == TaskDecrement(t) /\ UNCHANGED <<stop_vars, sched_vars>>

StopTaskWake(t) == TaskWake(t) /\ UNCHANGED <<stop_vars, sched_vars>>

\* sync after its loop: check_exit_conditions and the match on the state.
\* Interrupted: run returns, start_updates saves and drops its InterruptFlag.
\* Normal: the handles are awaited (every task has returned) and run sleeps.
StopLoopEnds ==
    /\ run_pc = "sync"
    /\ gm_pc = "ended"
    /\ run_pc' = IF shutdown THEN "returned" ELSE "sleep"
    /\ interrupt_flag' = (interrupt_flag \/ shutdown)
    /\ interrupt_fired' = (interrupt_fired \/ shutdown)
    /\ UNCHANGED <<shutdown, gm_fresh, tasks_vars, sched_pc, sched_event, sched_seen,
                   backlog, timeout_elapsed>>

\* run after the sleep between two cycles, with the signal received:
\* check_exit_conditions, run returns and the InterruptFlag is dropped
StopSleepEnds ==
    /\ run_pc = "sleep"
    /\ shutdown
    /\ run_pc' = "returned"
    /\ interrupt_flag' = TRUE
    /\ interrupt_fired' = TRUE
    /\ UNCHANGED <<shutdown, gm_fresh, tasks_vars, sched_pc, sched_event, sched_seen,
                   backlog, timeout_elapsed>>

\* Fetcher::sync has spawned the tasks of a cycle, main awaits next_query
InitShutdown ==
    /\ InitEnclaveState
    /\ deployment = "tdx"
    /\ InitHostState
    /\ InitClientState
    /\ InitVerifyState
    /\ fetched = <<>>
    /\ latest_height = 1
    /\ pending = {}
    /\ synced_to_watch = 1
    /\ published = None
    /\ wal = {}
    /\ txs_table = {}
    /\ max_wal_size = 1
    /\ fetch_state = "running"
    /\ nfailed = 0
    /\ fetcher_dat = None
    /\ InitStopState
    /\ tick_pc = "idle"
    /\ tick_heights = <<>>
    /\ tick_flags = <<>>
    /\ InitRangesState
    /\ InitSchedState
    /\ InitCombineState
    /\ InitFrameState
    /\ InitFlagsState
    /\ \E n \in TaskIds :
          /\ task_pc = [t \in TaskIds |-> IF t <= n THEN "fetching" ELSE "none"]
          /\ active_tasks = n
    /\ waker = FALSE
    /\ messages = <<>>
    /\ recv_hook = FALSE
    /\ notified = FALSE
    /\ gm_pc = "recv"
    /\ sent_log = <<>>
    /\ handled_log = <<>>
    /\ nrespawn = 0


ShutdownOnly ==
    UNCHANGED <<enclave_vars, deployment, host_vars, channel_vars, client_vars,
                verify_vars, fetch_vars, ranges_vars, combine_vars, frame_vars,
                flags_vars>>

NextShutdown ==
    \/ ShutdownSignal /\ ShutdownOnly
    \/ StopCall /\ ShutdownOnly
    \/ StopRecv /\ ShutdownOnly
    \/ StopCount /\ ShutdownOnly
    \/ StopRegister /\ ShutdownOnly
    \/ StopWoken /\ ShutdownOnly
    \/ StopTryRecv /\ ShutdownOnly
    \/ \E t \in TaskIds, ok \in BOOLEAN : StopTaskSend(t, ok) /\ ShutdownOnly
    \/ \E t \in TaskIds : StopTaskBlocked(t) /\ ShutdownOnly
    \/ \E t \in TaskIds : StopTaskInterrupted(t) /\ ShutdownOnly
    \/ \E t \in TaskIds : StopTaskDecrement(t) /\ ShutdownOnly
    \/ \E t \in TaskIds : StopTaskWake(t) /\ ShutdownOnly
    \/ StopLoopEnds /\ ShutdownOnly
    \/ StopSleepEnds /\ ShutdownOnly
    \/ \E accept \in {"ok", "err", "pending"} :
          SchedPoll(accept) /\ UNCHANGED <<tasks_vars, stop_vars>> /\ ShutdownOnly
    \/ SchedHandlerReturns /\ UNCHANGED <<tasks_vars, stop_vars>> /\ ShutdownOnly
    \/ SchedTimeout /\ UNCHANGED <<tasks_vars, stop_vars>> /\ ShutdownOnly
    \/ (backlog = 0 /\ ClientConnects) /\ UNCHANGED <<tasks_vars, stop_vars>> /\ ShutdownOnly

\* The runtime runs every task that can take a step, the indexer answers,
\* the sleeps elapse and the handlers of main return; the signal is free to
\* arrive or not.
SpecShutdown ==
    /\ InitShutdown
    /\ [][NextShutdown]_vars
    /\ WF_vars(StopCall /\ ShutdownOnly)
    /\ WF_vars(StopRecv /\ ShutdownOnly)
    /\ WF_vars(StopCount /\ ShutdownOnly)
    /\ WF_vars(StopRegister /\ ShutdownOnly)
    /\ WF_vars(StopWoken /\ ShutdownOnly)
    /\ WF_vars(StopTryRecv /\ ShutdownOnly)
    /\ WF_vars(\E t \in TaskIds, ok \in BOOLEAN : StopTaskSend(t, ok) /\ ShutdownOnly)
    /\ WF_vars(\E t \in TaskIds : StopTaskDecrement(t) /\ ShutdownOnly)
    /\ WF_vars(\E t \in TaskIds : StopTaskWake(t) /\ ShutdownOnly)
    /\ WF_vars(StopLoopEnds /\ ShutdownOnly)
    /\ WF_vars(StopSleepEnds /\ ShutdownOnly)
    /\ WF_vars(\E accept \in {"ok", "err", "pending"} :
                  SchedPoll(accept) /\ UNCHANGED <<tasks_vars, stop_vars>> /\ ShutdownOnly)
    /\ WF_vars(SchedHandlerReturns /\ UNCHANGED <<tasks_vars, stop_vars>> /\ ShutdownOnly)
    /\ WF_vars(SchedTimeout /\ UNCHANGED <<tasks_vars, stop_vars>> /\ ShutdownOnly)

\* ------------------------------- the host relay joined to the enclave
\* The frames of h_to_enclave written by the host step being taken.
written ==
    IF h_pc = "accept" THEN h_to_enclave'
    ELSE SubSeq(h_to_enclave', Len(h_to_enclave) + 1, Len(h_to_enclave'))

\* a step of the host: what it writes is queued for the enclave
RelayHost ==
    /\ to_enclave' = to_enclave \o written
    /\ UNCHANGED <<registered_keys, enc_pc, enc_conn, enc_in, emitted, hist, nticks,
                   deployment, client_vars, verify_vars, fetch_vars, ranges_vars, stop_vars,
                   tasks_vars, flags_vars,
                   frame_vars, combine_vars,
                   sched_vars>>

\* enclave_conn.read() of the host: the oldest unread frame, or a failed read
RelayHostRead(msg) ==
    /\ to_host # <<>>
    /\ msg \in {Head(to_host), Malformed}
    /\ to_host' = Tail(to_host)

\* a step of the enclave: it reads the oldest frame the host wrote
RelayEnclave ==
    /\ to_enclave # <<>>
    /\ enc_in' = Head(to_enclave)
    /\ to_enclave' = Tail(to_enclave)
    /\ UNCHANGED <<deployment, host_vars, client_vars, verify_vars, fetch_vars,
                   ranges_vars, stop_vars, tasks_vars, flags_vars, frame_vars,
                       combine_vars, sched_vars>>

InitRelay ==
    /\ InitEnclave
    /\ deployment = "tdx"

NextRelay ==
    \/ \E req \in ClientFrames : HostAccept(req) /\ RelayHost /\ UNCHANGED to_host
    \/ \E msg \in EnclaveFrames : RelayHostRead(msg) /\ HostRound1(msg) /\ RelayHost
    \/ \E req \in ClientFrames : HostClientAck(req) /\ RelayHost /\ UNCHANGED to_host
    \/ \E msg \in EnclaveFrames : RelayHostRead(msg) /\ HostRound2(msg) /\ RelayHost
    \/ to_enclave # <<>> /\ EnclaveRegisterKey(Head(to_enclave), to_host) /\ RelayEnclave
    \/ to_enclave # <<>> /\ EnclaveAck(Head(to_enclave), to_host) /\ RelayEnclave
    \/ to_enclave # <<>> /\ EnclaveIgnore(Head(to_enclave), to_host) /\ RelayEnclave

SpecRelay == InitRelay /\ [][NextRelay]_vars

\* ---------------------- the relay and the FMD tick joined to the enclave
RECURSIVE flat_map_get_height(_, _)
\* handle_fmd: heights.into_iter().flat_map(|h| db.get_height(h).unwrap())
flat_map_get_height(table, heights) ==
    IF heights = <<>> THEN <<>>
    ELSE get_height(table, Head(heights)) \o flat_map_get_height(table, Tail(heights))

\* handle_fmd up to its first read: RequiredBlocks is written
HostTickStart ==
    /\ h_pc = "accept"
    /\ nticks < MaxTicks
    /\ to_enclave' = Append(to_enclave, RequiredBlocks)
    /\ h_pc' = "tick_blocks"
    /\ UNCHANGED <<h_in, indices_table, to_host>>

\* handle_fmd from its first read to its second: the reply to RequiredBlocks
\* is read and, if it names heights, RequestedFlags is written
HostTickBlocks(msg) ==
    /\ h_pc = "tick_blocks"
    /\ h_in' = msg
    /\ LET ranges == msg.heights
           heights == SortedSeq({ranges[i] : i \in 1..Len(ranges)})
       IN  IF msg.type = "BlockRequests" /\ heights # <<>>
           THEN /\ to_enclave' = Append(to_enclave,
                    RequestedFlags(synced_to_watch,
                                   flat_map_get_height(txs_table, heights)))
                /\ h_pc' = "tick_results"
           ELSE /\ to_enclave' = to_enclave
                /\ h_pc' = "accept"
    /\ UNCHANGED indices_table

\* handle_fmd from its second read to its return
HostTickResults(msg) ==
    /\ h_pc = "tick_results"
    /\ h_in' = msg
    /\ indices_table' = IF msg.type = "FmdResults"
                        THEN update_indices(indices_table, msg.results)
                        ELSE indices_table
    /\ h_pc' = "accept"
    /\ UNCHANGED to_enclave

\* a step of handle_fmd: the connection's record and the enclave stay
RelayTick ==
    UNCHANGED <<registered_keys, enc_pc, enc_conn, enc_in, emitted, hist, nticks,
                h_to_enclave, h_to_client, deployment, client_vars, verify_vars,
                fetch_vars, ranges_vars, stop_vars, tasks_vars, flags_vars, frame_vars,
                combine_vars, sched_vars>>

NextLockstep ==
    \/ \E req \in ClientFrames : HostAccept(req) /\ RelayHost /\ UNCHANGED to_host
    \/ \E msg \in EnclaveFrames : RelayHostRead(msg) /\ HostRound1(msg) /\ RelayHost
    \/ \E req \in ClientFrames : HostClientAck(req) /\ RelayHost /\ UNCHANGED to_host
    \/ \E msg \in EnclaveFrames : RelayHostRead(msg) /\ HostRound2(msg) /\ RelayHost
    \/ HostTickStart /\ RelayTick
    \/ to_host # <<>> /\ (\E msg \in {Head(to_host), Malformed} :
            RelayHostRead(msg) /\ HostTickBlocks(msg) /\ RelayTick)
    \/ to_host # <<>> /\ (\E msg \in {Head(to_host), Malformed} :
            RelayHostRead(msg) /\ HostTickResults(msg) /\ RelayTick)
    \/ to_enclave # <<>> /\ EnclaveRegisterKey(Head(to_enclave), to_host) /\ RelayEnclave
    \/ to_enclave # <<>> /\ EnclaveAck(Head(to_enclave), to_host) /\ RelayEnclave
    \/ to_enclave # <<>> /\ EnclaveIgnore(Head(to_enclave), to_host) /\ RelayEnclave
    \/ to_enclave # <<>> /\ EnclaveRequiredBlocks(Head(to_enclave), to_host) /\ RelayEnclave
    \/ to_enclave # <<>> /\ EnclaveRequestedFlags(Head(to_enclave), to_host) /\ RelayEnclave

SpecLockstep == InitRelay /\ [][NextLockstep]_vars

\* ================================================== properties of the enclave
\* the cursor of the i-th registered key
cursor(i) == registered_keys[i].ixset.synced_to
\* the registrations of the list, in order, without their index sets
KeyList(keys) == [i \in 1..Len(keys) |-> keys[i].key]
\* the step just taken handled an acknowledgement that decrypts with the
\* session key and decodes to a registration
AckDecodes ==
    /\ enc_pc = "await_ack"
    /\ enc_in'.type = "RATLSAck"
    /\ enc_in'.success
    /\ enc_in'.cipher.key = enc_conn
    /\ enc_in'.cipher.wellformed
    /\ enc_in'.cipher.plain \in Registrations

C4_HeightsStrictlyIncrease ==
    \A o \in KeyIds : \A i, j \in 1..Len(emitted[o]) :
        i < j => emitted[o][i] < emitted[o][j]

C9_FailedAckEmitsClientError ==
    [][(enc_pc = "await_ack" /\ enc_in'.type = "RATLSAck" /\ ~AckDecodes) =>
        /\ \E i \in 1..Len(to_host') : to_host'[i].type = "ErrorForClient"
        /\ registered_keys' = registered_keys]_vars

\* ================================================ properties of the handshake
\* the checks of the client on the report it read
ReportChecksPass ==
    /\ IsSome(cl_report)
    /\ cl_report[1].type = "RATLS"
    /\ cl_report[1].report.kind = "quote"
    /\ cl_report[1].report.mrtd = ExpectedMeasurement
    /\ cl_report[1].report.rtmr0 = ExpectedMeasurement
    /\ cl_report[1].report.rtmr1 = ExpectedMeasurement
    /\ from_le_bytes(SubSeq(cl_report[1].report.data, 33, 40)) = cl_nonce
    /\ cl_secret * cl_report[1].report.data[1] # 0
\* the client has sent an acknowledgement of success
SentSuccess == \E i \in 1..Len(cl_sent) : cl_sent[i].type = "RATLSAck" /\ cl_sent[i].success

C8_AcceptedReportHasNonce ==
    (IsSome(v_result) /\ v_result[1].ok) =>
        /\ Len(v_report.data) >= 40
        /\ from_le_bytes(SubSeq(v_report.data, 33, 40)) = v_nonce

\* C10: in a relay, on an enclave message that is not client-bound, or on
\* anything but a RATLSAck from the client (a read error and a timeout
\* included), the host sends RATLSAck(Fail) to the enclave and returns
\* without writing anything else.
C10_HostAbortsRelay ==
    [][(\/ /\ h_pc \in {"round1", "round2"}
           /\ h_in'.type \notin {"RATLS", "ErrorForClient", "KeyRegSuccess", "Malformed"}
        \/ /\ h_pc = "client_ack"
           /\ h_in'.type # "RATLSAck") =>
        /\ h_to_enclave' = Append(h_to_enclave, AckFail)
        /\ h_to_client' = h_to_client
        /\ h_pc' = "accept"]_vars

\* the client timed out after the report was relayed to it
C10_Witness ==
    /\ h_pc = "accept"
    /\ h_in = ClientTimeout
    /\ Len(h_to_client) = 1 /\ h_to_client[1].type = "RATLS"
    /\ Len(h_to_enclave) = 2 /\ h_to_enclave[2] = AckFail

\* ================================================= properties of the fetcher
\* the entries the collector has received from the indexer
Obtained == wal \cup txs_table

\* C1: when the host sends RequestedFlags{synced_to = k, flags}, then for
\* every registered key with cursor c < k the flags hold an entry for every
\* transaction of height c + 1 the fetcher has obtained from the indexer.
C1_FlagsCoverNextHeight ==
    [][(tick_pc = "reading" /\ tick_pc' = "idle") =>
        \A i \in 1..Len(registered_keys) :
            registered_keys[i].ixset.synced_to < enc_in'.synced_to =>
                \A ix \in Obtained :
                    ix.height = registered_keys[i].ixset.synced_to + 1 =>
                        \E j \in 1..Len(enc_in'.flags) : enc_in'.flags[j].ix = ix]_vars

\* C2: every value the collector publishes on the synced_to watch channel is
\* completely fetched: FetchedRanges contains every height from 1 to it.
C2_PublishedIsFetched ==
    IsSome(published) => \A h \in 1..published[1] : contains(fetched, h)


\* ================================== properties of the relay and the enclave
\* C11: inside a key registration the host never waits for a frame of the
\* enclave that the enclave will not send: whenever the handler is blocked
\* in enclave_conn.read(), a frame is in flight in one of the two directions
\* (the enclave, blocked in its own read, writes only after it has read).
C11_HostNeverWaitsInVain ==
    h_pc \in {"round1", "round2"} => (to_host # <<>> \/ to_enclave # <<>>)

\* the client refused the report, the refusal was relayed, and the enclave
\* has dropped the connection without a reply
C11_StuckAfterRefusal ==
    /\ h_pc = "round2"
    /\ h_in = AckFail
    /\ enc_in = AckFail
    /\ to_host = <<>>
    /\ to_enclave = <<>>

\* ================================================ properties of the collector
\* C12: the values the collector sends on the synced_to watch never decrease,
\* whatever the order in which the fetch tasks complete.
C12_WatchNonDecreasing ==
    [][(IsSome(published) /\ IsSome(published')) => published'[1] >= published[1]]_vars

C20_SavedAfterEveryInsert ==
    IsSome(published) =>
        /\ IsSome(fetcher_dat)
        /\ try_from_slice(fetcher_dat[1]).ok
        /\ try_from_slice(fetcher_dat[1]).val = fetched

\* fetcher.dat as written at shutdown holds the ranges
C20_SavedAtShutdown ==
    fetch_state = "stopped" =>
        /\ IsSome(fetcher_dat)
        /\ try_from_slice(fetcher_dat[1]) = [ok |-> TRUE, val |-> fetched]

\* ============================================ properties of FetchedRanges
\* the number of intervals of the vector fr
intervals(fr) == Len(fr) \div 2

\* fr holds disjoint closed intervals in ascending order, none adjacent to
\* the next
WellFormed(fr) ==
    /\ Len(fr) % 2 = 0
    /\ \A c \in 1..intervals(fr) : fr[2 * c - 1] <= fr[2 * c]
    /\ \A c \in 1..(intervals(fr) - 1) : fr[2 * c + 1] > fr[2 * c] + 1

\* the last call was insert on well-formed ranges
InsertedIntoWellFormed ==
    /\ ranges_call.kind = "insert"
    /\ WellFormed(ranges_call.before)

\* C14: insert is set union: after insert(from, to) on well-formed ranges a
\* height is contained exactly when it was contained before or lies in
\* [from, to].
C14_InsertIsUnion ==
    InsertedIntoWellFormed =>
        \A h \in 1..(MaxRange + 1) :
            contains(fetched_ranges, h) <=>
                \/ contains(ranges_call.before, h)
                \/ ranges_call.from <= h /\ h <= ranges_call.to

\* C15: after any sequence of inserts on initially empty ranges the vector
\* of bounds is strictly increasing and consecutive intervals are neither
\* overlapping nor adjacent.
C15_StrictlyIncreasingAndMerged ==
    ranges_fresh =>
        /\ \A i \in 1..(Len(fetched_ranges) - 1) : fetched_ranges[i] < fetched_ranges[i + 1]
        /\ \A c \in 1..(intervals(fetched_ranges) - 1) :
               fetched_ranges[2 * c + 1] > fetched_ranges[2 * c] + 1

\* C15, as the code has it: an interval of one height is stored as [l, l],
\* so the bounds of one interval satisfy l <= r.
C15_IntervalsOrderedAndMerged == ranges_fresh => WellFormed(fetched_ranges)

\* several intervals, one of them of a single height, after inserts
C15_Witness ==
    /\ ranges_fresh
    /\ ranges_call.kind = "insert"
    /\ intervals(fetched_ranges) >= 2
    /\ \E c \in 1..intervals(fetched_ranges) :
          fetched_ranges[2 * c - 1] = fetched_ranges[2 * c]

\* C16: insert(l, r) made twice in a row yields the vector of a single
\* insert(l, r).
C16_InsertIdempotent ==
    (ranges_fresh /\ ranges_call.kind = "insert") => ranges_call.again = fetched_ranges

\* the smallest height >= 1 that fr does not contain
smallest_missing(fr) ==
    CHOOSE h \in 1..(MaxRange + 1) :
        /\ ~contains(fr, h)
        /\ \A x \in 1..(h - 1) : contains(fr, x)

\* C17: first() is the smallest height >= 1 the ranges do not contain.
C17_FirstIsSmallestMissing ==
    ranges_fresh => first(fetched_ranges) = smallest_missing(fetched_ranges)

\* C18: first() does not decrease from before an insert to after it.
C18_FirstMonotone ==
    (ranges_fresh /\ ranges_call.kind = "insert") =>
        first(fetched_ranges) >= first(ranges_call.before)

\* C19: blocks_left_to_fetch(from, to) returns intervals in ascending order,
\* disjoint and non-adjacent, inside [from, to], whose union is the heights
\* of [from, to] the ranges do not contain.
C19_BlocksLeftAreTheGaps ==
    ranges_call.kind = "blocks_left_to_fetch" =>
        LET left == ranges_call.left
        IN  /\ \A i \in 1..Len(left) :
                   /\ ranges_call.from <= left[i][1]
                   /\ left[i][1] <= left[i][2]
                   /\ left[i][2] <= ranges_call.to
            /\ \A i \in 1..(Len(left) - 1) : left[i + 1][1] > left[i][2] + 1
            /\ \A h \in ranges_call.from..ranges_call.to :
                   (\E i \in 1..Len(left) : left[i][1] <= h /\ h <= left[i][2])
                       <=> ~contains(fetched_ranges, h)

\* a call that returned several gaps
C19_Witness ==
    /\ ranges_call.kind = "blocks_left_to_fetch"
    /\ Len(ranges_call.left) >= 2
    /\ intervals(fetched_ranges) >= 2

\* ============================================ properties of the event loop
\* C21: a poll selects Interrupt whenever the interrupt has fired, whatever
\* the listener and the Sleep return; Accept only when no interrupt has
\* fired; PerformFmd only when no interrupt has fired and no connection was
\* accepted.
C21_PollPriority ==
    sched_event # "Pending" =>
        /\ sched_seen.dropped => sched_event = "Interrupt"
        /\ sched_event = "Accept" => ~sched_seen.dropped /\ sched_seen.accept = "ok"
        /\ sched_event = "PerformFmd" => ~sched_seen.dropped /\ sched_seen.accept # "ok"

\* the interrupt was selected with a connection pending and the Sleep elapsed
C21_Witness ==
    /\ sched_event = "Interrupt"
    /\ sched_seen.accept = "ok"
    /\ sched_seen.timeout

\* C22: in every execution in which no interrupt fires the loop selects
\* PerformFmd again and again, also when clients keep connecting.
C22_FmdNotStarved == ([]~interrupt_fired) => []<>(sched_pc = "fmd")

\* with no interrupt and no client PerformFmd is selected after each timeout
C22_FmdWhenIdle == ([](~interrupt_fired /\ backlog = 0)) => []<>(sched_pc = "fmd")

\* ======================================== properties of IndexList::combine
\* the elements of a list
elements(list) == {list[i] : i \in 1..Len(list)}

\* the maximum height of a non-empty list
max_height(list) ==
    CHOOSE h \in {ix.height : ix \in elements(list)} :
        \A ix \in elements(list) : ix.height <= h

\* both lists are non-empty and the combinations have been computed
CombinedNonEmpty == IsSome(cmb_ab) /\ cmb_a # <<>> /\ cmb_b # <<>>

\* C23: for non-empty a and b with maximum heights Ha >= Hb, a.combine(b)
\* holds exactly the elements of a above Hb and the elements of height <= Hb
\* that occur in both.
C23_CombineKeepsTailAndIntersection ==
    (CombinedNonEmpty /\ max_height(cmb_a) >= max_height(cmb_b)) =>
        elements(cmb_ab[1]) =
            {ix \in elements(cmb_a) : ix.height > max_height(cmb_b)}
            \cup {ix \in elements(cmb_a) \cap elements(cmb_b) :
                      ix.height <= max_height(cmb_b)}

\* a is synced further than b, part of its tail and part of the common
\* range survive, and an element of it is dropped
C23_Witness ==
    /\ CombinedNonEmpty
    /\ max_height(cmb_a) > max_height(cmb_b)
    /\ \E ix \in elements(cmb_ab[1]) : ix.height > max_height(cmb_b)
    /\ \E ix \in elements(cmb_ab[1]) : ix.height <= max_height(cmb_b)
    /\ elements(cmb_ab[1]) # elements(cmb_a)

\* C24: a.combine(b) and b.combine(a) are the same list; when one of the two
\* is empty the result is the other, unchanged.
C24_CombineSymmetric ==
    IsSome(cmb_ab) =>
        /\ cmb_ab = cmb_ba
        /\ cmb_a = <<>> => cmb_ab[1] = cmb_b
        /\ cmb_b = <<>> => cmb_ab[1] = cmb_a

\* no index occurs twice in the list
duplicate_free(list) == \A i, j \in 1..Len(list) : list[i] = list[j] => i = j

\* C24 for lists in which no index occurs twice
C24_SymmetricWithoutDuplicates ==
    (IsSome(cmb_ab) /\ duplicate_free(cmb_a) /\ duplicate_free(cmb_b)) =>
        cmb_ab = cmb_ba

\* C25: for lists a and b that share no height, with the maximum height of
\* a below that of b, every element of a is in combine(a, b).
C25_LowerListSurvives ==
    (/\ CombinedNonEmpty
     /\ {ix.height : ix \in elements(cmb_a)} \cap {ix.height : ix \in elements(cmb_b)} = {}
     /\ max_height(cmb_a) < max_height(cmb_b)) =>
        elements(cmb_a) \subseteq elements(cmb_ab[1])


\* C26: a read or decode error on the host channel never terminates the
\* enclave: the step that meets the error emits MsgToHost::Error, leaves the
\* registered keys (and their cursors) unchanged and returns to the main loop.
C26_ReadErrorKeepsServing ==
    [][enc_in'.type \in {"Malformed", "IoError"}
        => /\ enc_pc' = "main"
           /\ to_host' # <<>>
           /\ to_host'[Len(to_host')].type = "Error"
           /\ registered_keys' = registered_keys]_vars
\* the decode-error half of C26: a frame that fails to decode is answered
\* with Error and the loop goes on
C26_DecodeErrorAnswered ==
    [][enc_in'.type = "Malformed"
        => /\ enc_pc' = "main"
           /\ to_host' # <<>>
           /\ to_host'[Len(to_host')].type = "Error"
           /\ registered_keys' = registered_keys]_vars
C26_Panicked == enc_pc = "panicked"


\* the frames of the messages written and not yet read
RECURSIVE frames_of(_)
frames_of(msgs) ==
    IF msgs = <<>> THEN <<>> ELSE write_frame(Head(msgs)) \o frames_of(Tail(msgs))

\* C27: for every message m and every growth step >= 2 of the frame buffer,
\* get_frame on the bytes write_frame(m) produced, followed by deserialize,
\* yields m, also when the buffer had to grow and the bytes read so far were
\* replayed; the read stops at the frame's 0x00 sentinel, so the frames
\* written after it are left whole on the channel.
C27_FrameRoundTrip ==
    /\ Len(frm_recv) <= Len(frm_sent)
    /\ \A i \in 1..Len(frm_recv) : frm_recv[i] = [res |-> "Ok", msg |-> frm_sent[i]]
    /\ frm_chan = frames_of(SubSeq(frm_sent, Len(frm_recv) + 1, Len(frm_sent)))
\* a frame whose payload needed the buffer to grow twice was read while a
\* second frame was waiting behind it
C27_Witness ==
    /\ Len(frm_sent) = 2
    /\ Len(frm_recv) = 1
    /\ Len(to_vec(frm_sent[1])) > 2 * frm_size
    /\ 0 \in {to_vec(frm_sent[1])[i] : i \in 1..Len(to_vec(frm_sent[1]))}
    /\ frm_chan # <<>>


\* the replies the enclave gives to the message the host wrote last, at each
\* point of the host's handlers
ExpectedReply ==
    CASE h_pc = "round1" -> {"RATLS", "ErrorForClient"}
      [] h_pc = "round2" -> {"KeyRegSuccess", "ErrorForClient"}
      [] h_pc = "tick_blocks" -> {"BlockRequests"}
      [] h_pc = "tick_results" -> {"FmdResults", "Error"}
      [] OTHER -> {}

\* C28: the host-enclave channel stays in request/response lock-step: an
\* unread enclave reply is the one reply to the message the host wrote last,
\* and none is left when a client handler or an FMD tick has returned; the
\* tick after a registration aborted with RATLSAck(Fail) reads the
\* BlockRequests that answers its own RequiredBlocks.
C28_LockStep ==
    to_host # <<>> => /\ Len(to_host) = 1
                      /\ to_host[1].type \in ExpectedReply
\* a tick has read BlockRequests after the host aborted the last
\* registration with RATLSAck(Fail)
C28_Witness ==
    /\ h_pc = "tick_results"
    /\ h_in.type = "BlockRequests"
    /\ Len(h_to_enclave) = 2
    /\ h_to_enclave[2] = AckFail
    /\ Len(h_to_client) = 1
    /\ h_to_client[1].type = "RATLS"


\* C29: whenever the synced_to watch holds h, every transaction the collector
\* has received for a height <= h is a row of Txs and not only an entry of
\* the write-ahead buffer.
C29_SyncedHeightsAreInTxs ==
    \A entry \in wal : entry.height > synced_to_watch


\* the step just taken was a tick answered with FmdResults
TickAnswered ==
    /\ nticks' = nticks + 1
    /\ to_host' # <<>>
    /\ to_host'[Len(to_host')].type = "FmdResults"
\* the responses of that answer
TickResults == to_host'[Len(to_host')].results

\* C30: each EncryptedResponse a tick emits for a key carries the height whose
\* flags were processed for that key in the tick, which is the key's
\* synced_to before the tick plus one, and its plaintext is the key's full
\* index list, the matches of that height included.
C30_ResponseHeightIsProcessedHeight ==
    [][TickAnswered =>
        \A j \in 1..Len(TickResults) :
            \E i \in 1..Len(registered_keys) :
                /\ eligible(registered_keys[i].ixset, enc_in'.synced_to)
                /\ TickResults[j].owner = hash(registered_keys[i].key.enc_key)
                /\ TickResults[j].height = cursor(i) + 1
                /\ TickResults[j].indices = registered_keys'[i].ixset.indices]_vars
\* the plaintext half of C30, with the height the code writes: the cursor
\* before the tick
C30_ResponseCarriesFullList ==
    [][TickAnswered =>
        \A j \in 1..Len(TickResults) :
            \E i \in 1..Len(registered_keys) :
                /\ eligible(registered_keys[i].ixset, enc_in'.synced_to)
                /\ TickResults[j].owner = hash(registered_keys[i].key.enc_key)
                /\ TickResults[j].height = cursor(i)
                /\ TickResults[j].indices = registered_keys'[i].ixset.indices]_vars


\* the step just taken was a tick answered with Error, which check_flags
\* returns only when the encryption of an index set failed
TickFailed ==
    /\ nticks' = nticks + 1
    /\ to_host' # <<>>
    /\ to_host'[Len(to_host')].type = "Error"

\* C31: if encrypting a key's index set fails during a tick, the enclave
\* answers the tick with Error instead of FmdResults and the tick advances
\* the cursor of no registered key.
C31_FailedTickAdvancesNoCursor ==
    [][TickFailed =>
        /\ Len(registered_keys') = Len(registered_keys)
        /\ \A i \in 1..Len(registered_keys) :
              registered_keys'[i].ixset.synced_to = cursor(i)]_vars
\* what the code does in a failed tick: every key below the horizon is
\* advanced by one all the same
C31_FailedTickAdvancesAsUsual ==
    [][TickFailed =>
        /\ Len(registered_keys') = Len(registered_keys)
        /\ \A i \in 1..Len(registered_keys) :
              registered_keys'[i].ixset.synced_to =
                  IF cursor(i) < enc_in'.synced_to THEN cursor(i) + 1 ELSE cursor(i)]_vars


RECURSIVE matches_of(_, _, _)
\* the indices of the entries of height c + 1 whose flag is absent or
\* detected with fmd_key, in input order
matches_of(c, fmd_key, flags) ==
    IF flags = <<>> THEN <<>>
    ELSE LET e == Head(flags)
             rest == matches_of(c, fmd_key, Tail(flags))
         IN  IF e.ix.height = c + 1 /\ (e.flag = None \/ detect(fmd_key, e.flag[1]))
             THEN <<e.ix>> \o rest
             ELSE rest

\* C32: in a tick with horizon k, the indices appended to a key with cursor
\* c < k are exactly the input entries of height c + 1 whose flag is absent
\* or detected with the key's detection key, in input order; nothing is
\* appended for an entry of another height, nor to a key at or above k.
C32_AppendedAreTheMatches ==
    IsSome(cf_out) =>
        /\ Len(cf_out[1].keys) = Len(cf_keys)
        /\ \A i \in 1..Len(cf_keys) :
              cf_out[1].keys[i].ixset.indices =
                  cf_keys[i].ixset.indices \o
                  (IF cf_keys[i].ixset.synced_to < cf_synced_to
                   THEN matches_of(cf_keys[i].ixset.synced_to,
                                   cf_keys[i].key.fmd_key, cf_flags)
                   ELSE <<>>)
\* a tick of three entries appended one match to the first key, passing
\* over an entry of another height and an entry of the key's next height
\* whose flag the key does not detect
C32_Witness ==
    /\ IsSome(cf_out)
    /\ Len(cf_keys) >= 1
    /\ Len(cf_flags) = 3
    /\ Len(cf_out[1].keys[1].ixset.indices) = Len(cf_keys[1].ixset.indices) + 1
    /\ \E j \in 1..3 : cf_flags[j].ix.height # cf_keys[1].ixset.synced_to + 1
    /\ \E j \in 1..3 : /\ cf_flags[j].ix.height = cf_keys[1].ixset.synced_to + 1
                        /\ cf_flags[j].flag = Some(1)
                        /\ cf_keys[1].key.fmd_key = 2


\* every fetch task of the cycle has finished and the channel is empty
AllTasksFinished ==
    /\ \A t \in TaskIds : task_pc[t] \in {"none", "done"}
    /\ messages = <<>>

\* C33: once every fetch task spawned in a cycle has finished and the result
\* channel is empty, the collector's wait for the next message returns and
\* the cycle ends, under every interleaving of a task's decrement-and-wake
\* with the collector's zero check and waker registration.
C33_CycleEndsWhenTasksFinished == AllTasksFinished ~> (gm_pc = "ended")
\* the collector sleeps with no task left to wake it
C33_CollectorAsleep ==
    /\ AllTasksFinished
    /\ gm_pc = "pending"
    /\ ~notified

\* C34: absent an interrupt the collector never ends a cycle while a fetch
\* result is still queued: every result sent on the channel is handled
\* exactly once before the loop exits, also when the active-task counter
\* reaches zero while several messages are in the channel.
C34_EveryResultHandledOnce ==
    /\ handled_log \o messages = sent_log
    /\ gm_pc = "ended" => (messages = <<>> /\ handled_log = sent_log)
\* the collector found the counter at zero while two messages that arrived
\* after its poll of the channel are queued
C34_Witness ==
    /\ gm_pc = "try_recv"
    /\ active_tasks = 0
    /\ Len(messages) >= 2


\* C35: every height of [1, H], H the indexer's tip, that is missing from
\* FetchedRanges is eventually scheduled and fetched, provided the indexer
\* eventually answers; this includes the heights below the first stored
\* interval when the ranges loaded from fetcher.dat do not begin at 1.
C35_MissingHeightsEventuallyFetched ==
    \A h \in 1..MaxChain :
        (h <= latest_height /\ ~contains(fetched, h)) ~> contains(fetched, h)
\* what the code gives, whatever the height of the tip: no task that sync
\* spawns begins below first(), so that a height below the first stored
\* interval is in no task
C35_NoTaskBelowFirst ==
    [][\A task \in pending' \ pending : task[1] >= first(fetched)]_vars
\* the ranges loaded at the restart do not begin at 1, and no task of the
\* cycles after it covers the heights below them
C35_HoleBelowLoadedRanges ==
    /\ IsSome(fetcher_dat)
    /\ fetch_state = "running"
    /\ fetched # <<>>
    /\ fetched[1] > 1
    /\ first(fetched) > latest_height
    /\ pending = {}


\* C36: wherever the host process may stop, clean shutdown included, the
\* ranges persisted in fetcher.dat cover only heights whose transactions
\* have been written to Txs: no range is on disk while its entries exist
\* only in the in-memory log.
C36_SavedRangesAreInTxs ==
    IsSome(fetcher_dat) =>
        \A h \in 1..MaxChain :
            contains(try_from_slice(fetcher_dat[1]).val, h) =>
                fetch_shielded_transfers(h, h) \subseteq txs_table
\* the clean shutdown between save and the drop of the Fetcher: a range is
\* in fetcher.dat and its entries are in the log only
C36_SavedBeforeFlush ==
    /\ fetch_state = "saved"
    /\ \E entry \in wal : contains(try_from_slice(fetcher_dat[1]).val, entry.height)
\* the host has stopped, by a clean shutdown or not, and fetcher.dat names a
\* height that Txs does not hold
C36_StoppedWithRangeNotInTxs ==
    /\ fetch_state \in {"stopped", "killed"}
    /\ ~C36_SavedRangesAreInTxs
\* what the code gives: whatever the ranges cover is in Txs or in the log
\* while the collector runs
C36_FetchedIsInTxsOrLog ==
    fetch_state = "running" =>
        \A h \in 1..MaxChain :
            contains(fetched, h) => fetch_shielded_transfers(h, h) \subseteq txs_table \cup wal


\* C37: the number of fetch tasks active at the same time never exceeds the
\* capacity of the bounded result channel, whatever the distance between
\* first() and the indexer's tip.
C37_ActiveTasksWithinCapacity == Cardinality(pending) <= DEFAULT_BUF_SIZE
\* what the code gives: sync spawns a task for every batch between first()
\* and the tip when nothing above first() is fetched yet, so that the number
\* of tasks grows with the distance
C37_OneTaskPerBatch ==
    [][(pending = {} /\ pending' # {} /\ Len(fetched) <= 2) =>
          Cardinality(pending') * BatchSize >= latest_height' - first(fetched) + 1]_vars
\* sync has spawned more tasks than the channel has slots
C37_MoreTasksThanSlots ==
    /\ fetch_state = "running"
    /\ Cardinality(pending) > DEFAULT_BUF_SIZE
    /\ nfailed = 0


\* C39: the client's aggregated index list does not depend on the order in
\* which the per-service lists are combined: combine folded over any
\* permutation of the same lists, empty lists included, gives the same result.
C39_FoldOrderIndependent ==
    IsSome(cmb_fold) => \A o1, o2 \in Orders : cmb_fold[1][o1] = cmb_fold[1][o2]
\* the same for lists in which no index occurs twice
C39_FoldOrderIndependentWithoutDuplicates ==
    (/\ IsSome(cmb_fold)
     /\ duplicate_free(cmb_a) /\ duplicate_free(cmb_b) /\ duplicate_free(cmb_c)) =>
        \A o1, o2 \in Orders : elements(cmb_fold[1][o1]) = elements(cmb_fold[1][o2])
\* what the code gives: with one of the three lists empty and no index
\* twice, the order of the two others does not matter
C39_TwoListsAndAnEmptyOne ==
    (/\ IsSome(cmb_fold)
     /\ cmb_c = <<>>
     /\ duplicate_free(cmb_a) /\ duplicate_free(cmb_b)
     /\ combine(cmb_a, cmb_b) # <<>>) =>
        \A o1, o2 \in Orders : cmb_fold[1][o1] = cmb_fold[1][o2]


\* C40: for a key registered with birthday b, detection begins at height b:
\* the flags of height b are evaluated for the key once the horizon allows
\* it, and no transaction of a height below b is added to the key's indices.
C40_DetectionBeginsAtBirthday ==
    [][(Len(cf_keys') = Len(cf_keys) /\ IsSome(cf_out')) =>
          \A i \in 1..Len(cf_keys) :
              LET b == cf_keys[i].key.birthday[1]
              IN  /\ \A ix \in elements(cf_keys'[i].ixset.indices) : ix.height >= b
                  /\ (cf_keys[i].ixset.synced_to = b /\ b < cf_synced_to') =>
                        \A j \in 1..Len(cf_flags') :
                            (/\ cf_flags'[j].ix.height = b
                             /\ (cf_flags'[j].flag = None
                                    \/ detect(cf_keys[i].key.fmd_key, cf_flags'[j].flag[1]))) =>
                                cf_flags'[j].ix \in elements(cf_keys'[i].ixset.indices)]_vars
\* what the code gives: only heights above the birthday are added
C40_DetectionBeginsAfterBirthday ==
    \A i \in 1..Len(cf_keys) :
        /\ cf_keys[i].ixset.synced_to >= cf_keys[i].key.birthday[1]
        /\ \A ix \in elements(cf_keys[i].ixset.indices) :
              ix.height > cf_keys[i].key.birthday[1]
\* a key of birthday 1 went through a tick with horizon 2 and a flag of
\* height 1 that matches every key: the index is not in the key's indices
C40_BirthdayHeightSkipped ==
    /\ Len(cf_keys) >= 1
    /\ cf_keys[1].key.birthday = Some(1)
    /\ cf_keys[1].ixset.synced_to = 2
    /\ cf_synced_to = 2
    /\ \E j \in 1..Len(cf_flags) :
          /\ cf_flags[j].ix.height = 1
          /\ cf_flags[j].flag = None
          /\ cf_flags[j].ix \notin elements(cf_keys[1].ixset.indices)


\* C38: after a shutdown signal is received, the fetch pipeline eventually
\* exits and drops its interrupt flag, the scheduler then selects Interrupt
\* and the host stops, in whatever state the collector is when the signal
\* arrives.
C38_SignalStopsTheHost == shutdown ~> (sched_pc = "closed")
\* the signal is received, every task has returned and the collector is
\* Pending in select with no wakeup on its way
C38_CollectorAsleepAtSignal ==
    /\ shutdown
    /\ run_pc = "sync"
    /\ gm_pc = "pending"
    /\ ~notified
    /\ messages = <<>>
    /\ \A t \in TaskIds : task_pc[t] \in {"none", "done"}
\* what the code gives: unless the collector is left Pending with no wakeup
\* on its way, the signal stops the host
C38_StopsUnlessCollectorAsleep ==
    shutdown ~> (sched_pc = "closed" \/ C38_CollectorAsleepAtSignal)
\* what the code gives: once the InterruptFlag is dropped the next event is
\* Interrupt, and after it main handles nothing
C38_InterruptIsLast ==
    [][/\ (interrupt_fired /\ sched_pc = "poll") => sched_pc' \in {"poll", "closed"}
       /\ sched_pc = "closed" => sched_pc' = "closed"]_vars

=============================================================================
